---------------------------- MODULE Spec2Model ----------------------------
(***************************************************************************)
(* A model of recipe_engine/step_runner.py: the incremental line buffer,   *)
(* the live (subprocess) step runner, the simulation step runner, and      *)
(* render_step with construct_step_result.                                 *)
(*                                                                         *)
(* Strings are sequences of one-character strings.  Python's None is the   *)
(* string "None" where a value may be absent, and 0 for an absent timeout  *)
(* (the code tests timeouts for truth, so None and 0 behave alike).        *)
(***************************************************************************)
EXTENDS Integers, Sequences, FiniteSets, TLC

VARIABLES
  \* _streamingLinebuf under test (step_runner.py:45-72)
  buffedlines,    \* self.buffedlines: the completed lines not yet handed out
  extra,          \* self.extra: the text after the last line break
  fed,            \* observer: the concatenation of all chunks ingested so far
  returned,       \* observer: the lines get_buffered has returned, in order
  reassembled     \* observer: some ingest completed a line begun by an earlier chunk

lbvars == <<buffedlines, extra, fed, returned, reassembled>>

VARIABLES
  \* one step of SubprocessStepRunner (step_runner.py:154-392)
  l_pc,           \* where the step is: "idle", "opened", "polling", "waiting", "done",
                  \* "finalized"
  l_step,         \* the rendered step_dict of the open step
  l_child,        \* the child process: "none", "running", "exited"
  l_returncode,   \* proc.returncode, "None" until the child has exited
  l_written,      \* observer: what the child wrote to stdout and to stderr
  l_pending,      \* the data in each OS pipe that yield_any has not yet yielded
  l_linebufs,     \* linebufs: the _streamingLinebuf of each piped stream
  l_sink,         \* the calls made on step_stream, in order
  l_now,          \* time.time()
  l_start_time,   \* start_time of the polling loop
  l_last_yield,   \* when yield_any last yielded
  l_outcome,      \* how run() ended: "none", "returned", "raised"
  l_exc,          \* the exception run() raised
  l_result,       \* the StepData run() returned
  l_ran_past,     \* observer: the child was running later than the timeout
  l_handles,      \* the file objects of run() that are open
  l_spawned       \* observer: how many OS processes run() has spawned

livevars == <<l_pc, l_step, l_child, l_returncode, l_written, l_pending,
              l_linebufs, l_sink, l_now, l_start_time, l_last_yield,
              l_outcome, l_exc, l_result, l_ran_past, l_handles,
              l_spawned>>

VARIABLES
  \* a run of SimulationStepRunner (step_runner.py:395-474)
  s_step_data,          \* self._test_data.step_data: the registered fixtures, by step name
  s_expected_exception, \* self._test_data.expected_exception, "None" when there is none
  s_steps,              \* the OpenSteps handed out by open_step, in order
  s_step_history,       \* self._step_history: an OrderedDict keyed by step name
  s_heap,               \* the step dicts in memory
  s_ctx,                \* run_context: "body" while the run is inside, then "exited"
  s_raised,             \* the exception the body of run_context ended with, or "None"
  s_outcome,            \* how run_context ended: "none", "ok", "raised"
  s_error,              \* the exception that left run_context
  s_declared,           \* observer: the expected exception declared for the run
  s_registered          \* observer: the fixtures registered for the run

simvars == <<s_step_data, s_expected_exception, s_steps, s_step_history, s_heap, s_ctx,
             s_raised, s_outcome, s_error, s_declared, s_registered>>

VARIABLES
  \* one step taken through render_step and construct_step_result
  \* (step_runner.py:486-606)
  r_pc,           \* "idle", "step", then "rendered" or "failed", then "constructed"
  r_step,         \* the step handed to render_step
  r_step_test,    \* the step test data handed to render_step
  r_render,       \* what render_step returned or raised
  r_construct     \* what construct_step_result returned or raised

rendervars == <<r_pc, r_step, r_step_test, r_render, r_construct>>

VARIABLES
  \* the run_context of SubprocessStepRunner (step_runner.py:257-264)
  l_ctx,          \* "body" while the with block runs, then "exited"
  l_ctx_raised,   \* the exception that ended the body, "None" for none
  l_ctx_outcome,  \* how run_context ended: "none", "ok", "raised"
  l_ctx_error     \* the exception that left run_context

lcvars == <<l_ctx, l_ctx_raised, l_ctx_outcome, l_ctx_error>>

VARIABLES
  \* one call of _merge_envs (step_runner.py:609-627)
  e_pc,           \* "idle", "called", "merging", "returned", "raised"
  e_heap,         \* the dicts in memory: "original" and, once made, "copy"
  e_given,        \* observer: the original environment as it was at the call
  e_override,     \* the override mapping
  e_todo,         \* the keys of override the loop has not yet gone through
  e_result,       \* which dict of the heap the name result is bound to
  e_error         \* the exception _merge_envs raised

envvars == <<e_pc, e_heap, e_given, e_override, e_todo, e_result, e_error>>

VARIABLES
  \* one step descriptor run on both runners (step_runner.py:165-238, 411-437)
  q_step,         \* the step descriptor
  q_retcode,      \* the return code of the child, and of the step's test data
  q_live,         \* what open_step and run() of the live runner gave
  q_sim           \* what open_step and run() of the simulation runner gave

replayvars == <<q_step, q_retcode, q_live, q_sim>>

VARIABLES
  \* cooperatively scheduled tasks that run live steps
  \* (recipe_modules/futures/api.py, step_runner.py:340-357)
  t_tasks,        \* each task (greenlet): its state and where it is in its code
  t_current,      \* the task that holds the thread
  t_sink,         \* the lines forwarded to the stream engine, in order
  t_concurrency,  \* concurrency_client.supports_concurrency
  t_my_future     \* self._my_future of a recipe module: 0 while unset, else the
                  \* task of the future assigned to it

taskvars == <<t_tasks, t_current, t_sink, t_concurrency, t_my_future>>

VARIABLES
  \* one call of a checkout wrapped by _retry (recipe_engine/fetch.py)
  f_pc,           \* "idle", "called", a line of the checkout, "returned", "raised"
  f_backend,      \* "git" for GitBackend, "gitiles" for GitilesBackend
  f_allow_fetch,  \* the argument allow_fetch
  f_dir,          \* checkout_dir: "missing", "plain" (no .git) or "repo"
  f_has_rev,      \* the revision is in the local repository
  f_ran,          \* the git subcommands run and "request" for an HTTP request
  f_calls,        \* observer: how many times the wrapper has invoked f
  f_errors,       \* observer: the exceptions the invocations of f ended with
  f_sleeps,       \* observer: the arguments of time.sleep, in order
  f_delay,        \* the local delay of the wrapper
  f_outcome       \* what the wrapper returned or raised

fetchvars == <<f_pc, f_backend, f_allow_fetch, f_dir, f_has_rev, f_ran, f_calls,
               f_errors, f_sleeps, f_delay, f_outcome>>

VARIABLES
  \* one spawn inside _modify_lookup_path (step_runner.py:317-324, 650-664)
  p_pc,           \* "idle", "called", "saved", "inside", "popened", "exited"
  p_environ,      \* os.environ['PATH'], "None" when os.environ has no PATH
  p_given,        \* observer: os.environ['PATH'] before the with statement
  p_path,         \* the argument path: env.get('PATH') of the step's environment
  p_saved,        \* the local saved_path
  p_seen,         \* observer: the values os.environ['PATH'] had inside the with block
  p_exc           \* the exception in flight, then the one that left the with
                  \* statement; "None" for none

pathvars == <<p_pc, p_environ, p_given, p_path, p_saved, p_seen, p_exc>>

VARIABLES
  \* one step opened and run on one of the runners (step_runner.py:165-229,
  \* 411-437)
  o_pc,           \* "idle", "step", "failed", "open", "ended"
  o_runner,       \* "live" or "sim"
  o_step,         \* the step descriptor given to open_step
  o_timeout,      \* step_dict.get('timeout'), 0 for none
  o_times_out_after,  \* step_test.times_out_after, 0 for none
  o_render,       \* what render_step returned in open_step
  o_end           \* how run() ended: the exception that left it, the
                  \* StepData it returned, the cleanup calls it made

runvars == <<o_pc, o_runner, o_step, o_timeout, o_times_out_after, o_render, o_end>>

extvars == <<fetchvars, pathvars, runvars>>

auxvars == <<lcvars, envvars, replayvars, taskvars, extvars>>

vars == <<lbvars, livevars, simvars, rendervars, auxvars>>

----------------------------------------------------------------------------
(* Bounds *)

\* total number of characters fed to the line buffer under test
MaxFed == 4

\* total number of characters the child of a live step writes
MaxChildOut == 3

\* the largest timeout a step asks for, in polling slices
MaxTimeout == 1

\* the clock stops here
MaxTime == 3

\* number of open_step calls in one simulated run
MaxSimSteps == 2

\* number of entries of the argv handed to render_step
MaxCmd == 2

\* the longest override value of an environment variable, in tokens
MaxEnvVal == 2

\* how many tasks one recipe run has, the main one included
MaxTasks == 2

\* the most iterations the polling loop of one step makes
MaxPolls == 2

----------------------------------------------------------------------------
(* Strings *)

NL == "\n"
CR == "\r"

\* the characters a chunk may hold: two letters and the two line breaks
\* str.splitlines() knows for byte strings
Chars == {"a", "b", NL, CR}

RECURSIVE StringsUpTo(_, _)
\* all strings over alphabet of length 0..n
StringsUpTo(alphabet, n) ==
  IF n = 0 THEN {<<>>}
  ELSE LET shorter == StringsUpTo(alphabet, n - 1)
       IN  shorter \cup {Append(s, c) : s \in {t \in shorter : Len(t) = n - 1},
                                        c \in alphabet}

Front(s) == SubSeq(s, 1, Len(s) - 1)
Last(s) == s[Len(s)]

RECURSIVE SplitAcc(_, _, _)
\* str.splitlines() of Python 2, left to right: s is the text left, cur the
\* line being read, acc the lines found.  "\n", "\r" and "\r\n" each end a
\* line; a last line without a break is kept, an empty rest is not a line.
SplitAcc(s, cur, acc) ==
  IF s = <<>> THEN (IF cur = <<>> THEN acc ELSE Append(acc, cur))
  ELSE IF Head(s) = NL THEN SplitAcc(Tail(s), <<>>, Append(acc, cur))
  ELSE IF Head(s) = CR THEN
         IF Len(s) >= 2 /\ s[2] = NL
           THEN SplitAcc(Tail(Tail(s)), <<>>, Append(acc, cur))
           ELSE SplitAcc(Tail(s), <<>>, Append(acc, cur))
  ELSE SplitAcc(Tail(s), Append(cur, Head(s)), acc)

\* data.splitlines()
Splitlines(data) == SplitAcc(data, <<>>, <<>>)

\* data.endswith("\n")
EndsWithNL(data) == data # <<>> /\ Last(data) = NL

----------------------------------------------------------------------------
(* _streamingLinebuf *)

\* _streamingLinebuf.__init__
NewLinebuf == [buffedlines |-> <<>>, extra |-> <<>>]

\* the second half of ingest (lines 63-67): keep an unterminated last line
\* in extra, append the rest to buffedlines
IngestTail(buf, lines, endedOnLinebreak) ==
  IF ~endedOnLinebreak
    THEN [buffedlines |-> buf.buffedlines \o Front(lines),
          extra       |-> buf.extra \o Last(lines)]
    ELSE [buffedlines |-> buf.buffedlines \o lines,
          extra       |-> buf.extra]

\* ingest with the carried fragment forgotten: no join with self.extra
IngestNoCarry(buf, data) ==
  IngestTail([buf EXCEPT !.extra = <<>>], Splitlines(data), EndsWithNL(data))

\* _streamingLinebuf.ingest(data), data non-empty
Ingest(buf, data) ==
  LET lines == Splitlines(data)
      endedOnLinebreak == EndsWithNL(data)
  IN  IF buf.extra # <<>>
        THEN \* leftovers from some previous ingest
             LET joined == buf.extra \o lines[1]
             IN  IF Len(lines) > 1 \/ endedOnLinebreak
                   THEN IngestTail([buf EXCEPT !.extra = <<>>],
                                   <<joined>> \o Tail(lines), endedOnLinebreak)
                   ELSE [buf EXCEPT !.extra = joined]
        ELSE IngestTail(buf, lines, endedOnLinebreak)

----------------------------------------------------------------------------
(* The line buffer driven by arbitrary chunks *)

InitLinebuf ==
  /\ buffedlines = NewLinebuf.buffedlines
  /\ extra = NewLinebuf.extra
  /\ fed = <<>>
  /\ returned = <<>>
  /\ reassembled = FALSE

\* buf.ingest(data) for any non-empty chunk that fits the bound
LbIngest ==
  \E data \in StringsUpTo(Chars, MaxFed - Len(fed)) \ {<<>>} :
    LET buf == Ingest([buffedlines |-> buffedlines, extra |-> extra], data)
    IN  /\ buffedlines' = buf.buffedlines
        /\ extra' = buf.extra
        /\ fed' = fed \o data
        /\ reassembled' = (reassembled \/ (extra # <<>> /\ buf.extra # extra \o data))
        /\ UNCHANGED returned

\* buf.get_buffered()
LbGetBuffered ==
  /\ returned' = returned \o buffedlines
  /\ buffedlines' = <<>>
  /\ UNCHANGED <<extra, fed, reassembled>>

NextLinebuf ==
  \/ LbIngest /\ UNCHANGED <<livevars, simvars, rendervars, auxvars>>
  \/ LbGetBuffered /\ UNCHANGED <<livevars, simvars, rendervars, auxvars>>

----------------------------------------------------------------------------
(* SubprocessStepRunner: one live step *)

Pipes == {"stdout", "stderr"}

StepNames == {"compile", "test"}

\* the characters a child writes; universal_newlines=True (line 323) leaves
\* "\n" as the only line break
ChildChars == {"a", NL}

ReturnCodes == {0, 1}

\* step_dict.get('timeout'): 0 stands for no timeout
Timeouts == 0..MaxTimeout

\* yield_any(timeout=1), line 343
PollSlice == 1

NoException == [type |-> "None"]

\* recipe_api.StepTimeout(step_dict['name'], e.timeout), line 214
StepTimeout(name, timeout) ==
  [type |-> "StepTimeout", name |-> name, timeout |-> timeout]

\* handles[key] is the step stream unless step_dict names a file (lines 199-207);
\* _run_cmd pipes exactly the stream handles (lines 307-312, 334-338)
Piped(step) == {p \in Pipes : step[p] = "stream"}

EmptyPipes == [p \in Pipes |-> <<>>]

\* a polling loop that never looks at the clock
TimedOutNever(timeout, now, start) == FALSE

\* the elapsed-time test of the polling loop, line 344
TimedOut(timeout, now, start) == timeout # 0 /\ now - start > timeout

\* one line buffer for both pipes
LinebufShared(pipe) == "stdout"

\* linebufs.get(pipe), line 350: each piped stream has a _streamingLinebuf of
\* its own (lines 334-338)
LinebufOf(pipe) == pipe

RECURSIVE WriteLines(_, _, _)
\* outstreams[pipe].write_line(line) for each line, lines 354-355
WriteLines(sink, pipe, lines) ==
  IF lines = <<>> THEN sink
  ELSE WriteLines(Append(sink, [call |-> "write_line", pipe |-> pipe,
                                text |-> Head(lines)]),
                  pipe, Tail(lines))

\* a trigger spec; builder_name "None" stands for a spec without one
TriggerSpec(builder_name) == [builder_name |-> builder_name]

\* step_dict['trigger_specs'] of the steps run here: the key is absent (the
\* list is then never looked at), or it holds two specs, or three of which
\* the middle one has no builder_name
TriggerChoices ==
  {[declared |-> FALSE, specs |-> <<>>],
   [declared |-> TRUE, specs |-> <<TriggerSpec("a"), TriggerSpec("b")>>],
   [declared |-> TRUE,
    specs |-> <<TriggerSpec("a"), TriggerSpec("None"), TriggerSpec("b")>>]}

ValueError == [type |-> "ValueError"]

\* a _trigger_builds that leaves out a spec without builder_name and goes on
TrigSkipped(sink, trig) ==
  [sink |-> IF trig.builder_name = "None" THEN sink
            ELSE Append(sink, [call |-> "trigger",
                               builderNames |-> <<trig.builder_name>>]),
   error |-> NoException]

\* one trigger spec in _trigger_builds, lines 364-380: ValueError for a spec
\* without builder_name, else one step.trigger(...) record
Trig(sink, trig) ==
  IF trig.builder_name = "None"
    THEN [sink |-> sink, error |-> ValueError]
    ELSE [sink |-> Append(sink, [call |-> "trigger",
                                 builderNames |-> <<trig.builder_name>>]),
          error |-> NoException]

RECURSIVE TriggerBuilds(_, _)
\* _trigger_builds(step, trigger_specs), lines 361-380: the sink after it, and
\* the exception that ended it, if one did
TriggerBuilds(sink, trigger_specs) ==
  IF trigger_specs = <<>> THEN [sink |-> sink, error |-> NoException]
  ELSE LET t == Trig(sink, Head(trigger_specs))
       IN  IF t.error # NoException THEN t
           ELSE TriggerBuilds(t.sink, Tail(trigger_specs))

\* 'trigger_specs' in step_dict and then _trigger_builds, lines 168-169 and
\* 226-227
TriggerIfDeclared(sink, step) ==
  IF step.trigger_specs.declared
    THEN TriggerBuilds(sink, step.trigger_specs.specs)
    ELSE [sink |-> sink, error |-> NoException]

\* a finally clause that does not reset the sink
FinallyNoReset(sink, step) == TriggerIfDeclared(sink, step)

\* the finally clause of run(), lines 222-227: the sink after it, and the
\* exception that ended it, if one did
Finally(sink, step) ==
  TriggerIfDeclared(Append(sink, [call |-> "reset_subannotation_state"]), step)

\* a try statement out of which the exception of the try block goes on
\* whatever its finally clause raised
LeavesAsBefore(inflight, raised) == inflight

\* what leaves the try statement of run(), lines 196-227, when inflight is on
\* its way out of the try block or an except clause (NoException for a
\* block that ended normally) and the finally clause has raised raised: an
\* exception of the finally clause takes the place of the one in flight
Leaves(inflight, raised) == IF raised = NoException THEN inflight ELSE raised

\* types.StepData(step, retcode), as construct_step_result returns it
\* (lines 557 and 606)
StepData(step, retcode) ==
  [kind |-> "StepData", name |-> step.name, retcode |-> retcode]

NoResult == [kind |-> "None"]

InitLive ==
  /\ l_pc = "idle"
  /\ l_step = [name |-> "None", cmd |-> TRUE, timeout |-> 0, stdout |-> "stream",
               stderr |-> "stream",
               trigger_specs |-> [declared |-> FALSE, specs |-> <<>>]]
  /\ l_child = "none"
  /\ l_returncode = "None"
  /\ l_written = EmptyPipes
  /\ l_pending = EmptyPipes
  /\ l_linebufs = [p \in Pipes |-> NewLinebuf]
  /\ l_sink = <<>>
  /\ l_now = 0
  /\ l_start_time = 0
  /\ l_last_yield = 0
  /\ l_outcome = "none"
  /\ l_exc = NoException
  /\ l_result = NoResult
  /\ l_ran_past = FALSE
  /\ l_handles = {}
  /\ l_spawned = 0
  /\ l_ctx = "body"
  /\ l_ctx_raised = "None"
  /\ l_ctx_outcome = "none"
  /\ l_ctx_error = NoException

\* the file objects run() opens for the streams of the step that name a file,
\* lines 203-206
OpenHandles(step) == {p \in Pipes : step[p] = "file"}

\* _run_cmd once Popen has returned, lines 324-327: every file object is
\* closed
CloseInherited(handles) == {}

\* a finalize() that leaves the stream open
CloseStreamNever(sink) == sink

\* step_stream.close(), lines 175-176 and 231-232
CloseStream(sink) == Append(sink, [call |-> "close"])

\* open_step(step_dict) for a step with a command (lines 165-166 and
\* 186-237): the stream is made and _print_step writes the header
LiveOpenStep ==
  /\ l_pc = "idle"
  /\ l_ctx = "body"
  /\ \E name \in StepNames, timeout \in Timeouts,
        out \in {"stream", "file"}, err \in {"stream", "file"},
        trigger_specs \in TriggerChoices :
       l_step' = [name |-> name, cmd |-> TRUE, timeout |-> timeout, stdout |-> out,
                  stderr |-> err, trigger_specs |-> trigger_specs]
  /\ l_sink' = Append(l_sink, [call |-> "print_step"])
  /\ l_pc' = "opened"
  /\ UNCHANGED <<l_child, l_returncode, l_written, l_pending, l_linebufs, l_now,
                 l_start_time, l_last_yield, l_outcome, l_exc, l_result, l_ran_past,
                 l_handles, l_spawned>>

\* open_step(step_dict) for a step without a command (lines 165-184): the
\* stream is made and an EmptyOpenStep is returned; nothing is printed
LiveOpenEmptyStep ==
  /\ l_pc = "idle"
  /\ l_ctx = "body"
  /\ \E name \in StepNames, trigger_specs \in TriggerChoices :
       l_step' = [name |-> name, cmd |-> FALSE, timeout |-> 0, stdout |-> "stream",
                  stderr |-> "stream", trigger_specs |-> trigger_specs]
  /\ l_pc' = "opened"
  /\ UNCHANGED <<l_child, l_returncode, l_written, l_pending, l_linebufs, l_sink,
                 l_now, l_start_time, l_last_yield, l_outcome, l_exc, l_result,
                 l_ran_past,
                 l_handles, l_spawned>>

\* EmptyOpenStep.run(), lines 167-170: the trigger records, then
\* StepData(step_dict, 0); no child, and the sink is not reset
LiveRunEmpty ==
  /\ l_pc = "opened"
  /\ ~l_step.cmd
  /\ LET t == TriggerIfDeclared(l_sink, l_step)
     IN  /\ l_sink' = t.sink
         /\ IF t.error = NoException
              THEN /\ l_outcome' = "returned"
                   /\ l_result' = StepData(l_step, 0)
                   /\ UNCHANGED l_exc
              ELSE /\ l_outcome' = "raised"
                   /\ l_exc' = t.error
                   /\ UNCHANGED l_result
  /\ l_pc' = "done"
  /\ UNCHANGED <<l_step, l_child, l_returncode, l_written, l_pending, l_linebufs,
                 l_now, l_start_time, l_last_yield, l_ran_past,
                 l_handles, l_spawned>>

\* a _run_cmd that calls Popen a second time
PopenTwice(spawned) == spawned + 2

\* subprocess42.Popen(cmd, ...), lines 316-322: one more OS process
Popen(spawned) == spawned + 1

\* run() up to the polling loop: Popen succeeds, the line buffers are made and
\* the clock is read (lines 317-342), or the blocking wait begins (line 357)
LiveSpawn ==
  /\ l_pc = "opened"
  /\ l_step.cmd
  /\ l_child' = "running"
  /\ l_linebufs' = [p \in Pipes |-> NewLinebuf]
  /\ l_start_time' = l_now
  /\ l_last_yield' = l_now
  /\ l_pc' = IF Piped(l_step) # {} THEN "polling" ELSE "waiting"
  /\ l_handles' = CloseInherited(OpenHandles(l_step))
  /\ l_spawned' = Popen(l_spawned)
  /\ UNCHANGED <<l_step, l_returncode, l_written, l_pending, l_sink, l_now,
                 l_outcome, l_exc, l_result, l_ran_past>>

\* the except OSError clause of run(), lines 215-221: the trace goes to the
\* log stream 'exception', line by line, then the status is set
ExceptOSError(sink) ==
  sink \o <<[call |-> "new_log_stream", name |-> "exception"],
            [call |-> "write_line", pipe |-> "exception", text |-> <<"a">>],
            [call |-> "set_step_status", status |-> "EXCEPTION"]>>

\* run() when Popen raises OSError (lines 215-227): the except clause, then
\* finally, whose own exception takes the place of the OSError
LiveSpawnFails ==
  /\ l_pc = "opened"
  /\ l_step.cmd
  /\ LET f == Finally(ExceptOSError(l_sink), l_step)
     IN  /\ l_sink' = f.sink
         /\ l_exc' = Leaves([type |-> "OSError"], f.error)
  /\ l_outcome' = "raised"
  /\ l_pc' = "done"
  /\ l_handles' = OpenHandles(l_step)
  /\ UNCHANGED <<l_step, l_child, l_returncode, l_written, l_pending, l_linebufs,
                 l_now, l_start_time, l_last_yield, l_result, l_ran_past,
                 l_spawned>>

\* run() leaves the try block with TimeoutExpired: lines 212-214, then
\* finally, whose own exception takes the place of the StepTimeout
RaiseTimeout ==
  /\ LET f == Finally(l_sink, l_step)
     IN  /\ l_sink' = f.sink
         /\ l_exc' = Leaves(StepTimeout(l_step.name, l_step.timeout), f.error)
  /\ l_outcome' = "raised"
  /\ l_pc' = "done"
  /\ UNCHANGED <<l_child, l_returncode, l_result>>

\* a run() that raises StepFailure for a nonzero return code, as run_recipe
\* does (lines 250-254)
ReturnResultOrFailure ==
  /\ LET f == Finally(l_sink, l_step)
     IN  /\ l_sink' = f.sink
         /\ IF f.error = NoException /\ l_returncode = 0
              THEN /\ l_outcome' = "returned"
                   /\ l_result' = StepData(l_step, l_returncode)
                   /\ UNCHANGED l_exc
              ELSE /\ l_outcome' = "raised"
                   /\ l_exc' = IF f.error = NoException
                                 THEN [type |-> "StepFailure"] ELSE f.error
                   /\ UNCHANGED l_result
  /\ l_pc' = "done"
  /\ UNCHANGED <<l_child, l_returncode>>

\* _run_cmd returns proc.returncode (line 359), then finally, then line 229
\* unless the finally clause raised
ReturnResult ==
  /\ LET f == Finally(l_sink, l_step)
         exc == Leaves(NoException, f.error)
     IN  /\ l_sink' = f.sink
         /\ IF exc = NoException
              THEN /\ l_outcome' = "returned"
                   /\ l_result' = StepData(l_step, l_returncode)
                   /\ UNCHANGED l_exc
              ELSE /\ l_outcome' = "raised"
                   /\ l_exc' = exc
                   /\ UNCHANGED l_result
  /\ l_pc' = "done"
  /\ UNCHANGED <<l_child, l_returncode>>

\* finalize() of either open step, lines 175-176 and 231-232, called once
\* run() has returned or raised
LiveFinalize ==
  /\ l_pc = "done"
  /\ l_sink' = CloseStream(l_sink)
  /\ l_pc' = "finalized"
  /\ UNCHANGED <<l_step, l_child, l_returncode, l_written, l_pending, l_linebufs,
                 l_now, l_start_time, l_last_yield, l_outcome, l_exc, l_result,
                 l_ran_past, l_handles, l_spawned>>

\* the child writes one character to stdout or stderr
ChildWrite ==
  /\ l_child = "running"
  /\ Len(l_written["stdout"]) + Len(l_written["stderr"]) < MaxChildOut
  /\ \E p \in Pipes, c \in ChildChars :
       /\ l_written' = [l_written EXCEPT ![p] = Append(@, c)]
       /\ l_pending' = IF p \in Piped(l_step)
                         THEN [l_pending EXCEPT ![p] = Append(@, c)]
                         ELSE l_pending
  /\ UNCHANGED <<l_pc, l_step, l_child, l_returncode, l_linebufs, l_sink, l_now,
                 l_start_time, l_last_yield, l_outcome, l_exc, l_result, l_ran_past,
                 l_handles, l_spawned>>

\* the child closes its streams and exits
ChildExit ==
  /\ l_child = "running"
  /\ l_child' = "exited"
  /\ \E rc \in ReturnCodes : l_returncode' = rc
  /\ UNCHANGED <<l_pc, l_step, l_written, l_pending, l_linebufs, l_sink, l_now,
                 l_start_time, l_last_yield, l_outcome, l_exc, l_result, l_ran_past,
                 l_handles, l_spawned>>

\* subprocess42's Popen.yield_any(timeout=1) is blocked: no pipe holds data
\* and less than a slice has passed since it last yielded
YieldAnyBlocked == l_pending = EmptyPipes /\ l_now - l_last_yield < PollSlice

\* yield_any yields (None, None): no pipe holds data and a slice has passed
YieldAnyIdle == l_pending = EmptyPipes /\ l_now - l_last_yield >= PollSlice

\* subprocess42's Popen.wait(timeout) is blocked: the timeout, if any, has
\* not been reached
WaitBlocked == l_step.timeout = 0 \/ l_now - l_start_time < l_step.timeout

\* a polling slice of wall-clock time passes.  yield_any yields data as soon
\* as there is some, and ends as soon as the child is gone, so time passes in
\* the loop only while it has nothing to do; wait(timeout) raises when the
\* timeout is reached.
Tick ==
  /\ l_now < MaxTime
  /\ l_child = "running"
  /\ \/ l_pc = "polling" /\ YieldAnyBlocked
     \/ l_pc = "waiting" /\ WaitBlocked
  /\ l_now' = l_now + 1
  /\ l_ran_past' = (l_ran_past \/
                    (l_step.timeout # 0 /\ l_now' - l_start_time > l_step.timeout))
  /\ UNCHANGED <<l_pc, l_step, l_child, l_returncode, l_written, l_pending,
                 l_linebufs, l_sink, l_start_time, l_last_yield, l_outcome, l_exc,
                 l_result, l_handles, l_spawned>>

\* one iteration of the polling loop on data of one pipe (lines 343-355):
\* yield_any yields any non-empty prefix of what the pipe holds
PollData ==
  /\ l_pc = "polling"
  /\ \E p \in Piped(l_step) : \E k \in 1..Len(l_pending[p]) :
       LET data == SubSeq(l_pending[p], 1, k)
           buf == Ingest(l_linebufs[LinebufOf(p)], data)
       IN  /\ l_pending' = [l_pending EXCEPT ![p] = SubSeq(@, k + 1, Len(@))]
           /\ l_last_yield' = l_now
           /\ IF TimedOut(l_step.timeout, l_now, l_start_time)
                THEN RaiseTimeout /\ UNCHANGED l_linebufs
                ELSE /\ l_linebufs' = [l_linebufs EXCEPT ![LinebufOf(p)] =
                                         [buf EXCEPT !.buffedlines = <<>>]]
                     /\ l_sink' = WriteLines(l_sink, p, buf.buffedlines)
                     /\ UNCHANGED <<l_pc, l_child, l_returncode, l_outcome, l_exc,
                                    l_result>>
  /\ UNCHANGED <<l_step, l_written, l_now, l_start_time, l_ran_past,
                 l_handles, l_spawned>>

\* one iteration of the polling loop without data (lines 343-349): yield_any
\* yields (None, None) when a slice has passed with nothing to read
PollNone ==
  /\ l_pc = "polling"
  /\ l_child = "running"
  /\ YieldAnyIdle
  /\ l_last_yield' = l_now
  /\ IF TimedOut(l_step.timeout, l_now, l_start_time)
       THEN RaiseTimeout
       ELSE UNCHANGED <<l_pc, l_child, l_returncode, l_sink, l_outcome, l_exc,
                        l_result>>
  /\ UNCHANGED <<l_step, l_written, l_pending, l_linebufs, l_now, l_start_time,
                 l_ran_past,
                 l_handles, l_spawned>>

\* subprocess42's Popen.yield_any ends: the child has exited and the pipes
\* are drained
YieldAnyEnds == l_child = "exited" /\ l_pending = EmptyPipes

\* the polling loop ends with yield_any (lines 343-355)
PollEnd ==
  /\ l_pc = "polling"
  /\ YieldAnyEnds
  /\ ReturnResult
  /\ UNCHANGED <<l_step, l_written, l_pending, l_linebufs, l_now, l_start_time,
                 l_last_yield, l_ran_past,
                 l_handles, l_spawned>>

\* proc.wait(timeout) returns: the child has exited (line 357)
WaitReturn ==
  /\ l_pc = "waiting"
  /\ l_child = "exited"
  /\ ReturnResult
  /\ UNCHANGED <<l_step, l_written, l_pending, l_linebufs, l_now, l_start_time,
                 l_last_yield, l_ran_past,
                 l_handles, l_spawned>>

\* proc.wait(timeout) raises TimeoutExpired: the timeout has passed and the
\* child has not exited (line 357); nothing in run() or _run_cmd kills it
WaitTimeout ==
  /\ l_pc = "waiting"
  /\ l_child = "running"
  /\ ~WaitBlocked
  /\ RaiseTimeout
  /\ UNCHANGED <<l_step, l_written, l_pending, l_linebufs, l_now, l_start_time,
                 l_last_yield, l_ran_past,
                 l_handles, l_spawned>>

\* the exceptions a recipe run on the live runner raises: those of a step,
\* and those of the recipe's own code
LiveExceptions == {"StepTimeout", "OSError", "ValueError", "StepFailure"}

\* what is raised in the with block without being an Exception:
\* KeyboardInterrupt derives from BaseException
BaseExceptions == {"KeyboardInterrupt"}

\* a run_context that swallows nothing, as the one of the base class
\* (lines 122-128)
LiveRunContextYields(raised) ==
  IF raised = "None"
    THEN [outcome |-> "ok", error |-> NoException]
    ELSE [outcome |-> "raised", error |-> [type |-> raised]]

\* SubprocessStepRunner.run_context once its body has ended with exception
\* raised or with none ("None"), lines 257-264: except Exception: pass
LiveRunContextExit(raised) ==
  IF raised \in BaseExceptions
    THEN [outcome |-> "raised", error |-> [type |-> raised]]
    ELSE [outcome |-> "ok", error |-> NoException]

\* the with block of run_context ends and run_context handles how
LiveExit(raised) ==
  LET exit == LiveRunContextExit(raised)
  IN  /\ l_ctx = "body"
      /\ l_ctx' = "exited"
      /\ l_ctx_raised' = raised
      /\ l_ctx_outcome' = exit.outcome
      /\ l_ctx_error' = exit.error

\* the exception of run() leaves the body: the engine has finalized the step
LiveStepRaises ==
  /\ l_pc = "finalized"
  /\ l_outcome = "raised"
  /\ LiveExit(l_exc.type)

\* the body raises in the recipe's own code, before its step
LiveBodyRaises ==
  /\ l_pc = "idle"
  /\ \E ex \in LiveExceptions \cup BaseExceptions : LiveExit(ex)

\* the body completes: its step returned a result, or it ran none
LiveBodyEnds ==
  /\ \/ l_pc = "idle"
     \/ l_pc = "finalized" /\ l_outcome = "returned"
  /\ LiveExit("None")

NextLiveContext ==
  \/ LiveStepRaises /\ UNCHANGED <<lbvars, livevars, simvars, rendervars, envvars,
                                  replayvars, taskvars, extvars>>
  \/ LiveBodyRaises /\ UNCHANGED <<lbvars, livevars, simvars, rendervars, envvars,
                                  replayvars, taskvars, extvars>>
  \/ LiveBodyEnds /\ UNCHANGED <<lbvars, livevars, simvars, rendervars, envvars,
                                  replayvars, taskvars, extvars>>

NextLive ==
  \/ LiveOpenStep /\ UNCHANGED <<lbvars, simvars, rendervars, auxvars>>
  \/ LiveOpenEmptyStep /\ UNCHANGED <<lbvars, simvars, rendervars, auxvars>>
  \/ LiveRunEmpty /\ UNCHANGED <<lbvars, simvars, rendervars, auxvars>>
  \/ LiveSpawn /\ UNCHANGED <<lbvars, simvars, rendervars, auxvars>>
  \/ LiveSpawnFails /\ UNCHANGED <<lbvars, simvars, rendervars, auxvars>>
  \/ ChildWrite /\ UNCHANGED <<lbvars, simvars, rendervars, auxvars>>
  \/ ChildExit /\ UNCHANGED <<lbvars, simvars, rendervars, auxvars>>
  \/ Tick /\ UNCHANGED <<lbvars, simvars, rendervars, auxvars>>
  \/ PollData /\ UNCHANGED <<lbvars, simvars, rendervars, auxvars>>
  \/ PollNone /\ UNCHANGED <<lbvars, simvars, rendervars, auxvars>>
  \/ PollEnd /\ UNCHANGED <<lbvars, simvars, rendervars, auxvars>>
  \/ WaitReturn /\ UNCHANGED <<lbvars, simvars, rendervars, auxvars>>
  \/ WaitTimeout /\ UNCHANGED <<lbvars, simvars, rendervars, auxvars>>
  \/ LiveFinalize /\ UNCHANGED <<lbvars, simvars, rendervars, auxvars>>

----------------------------------------------------------------------------
(* SimulationStepRunner: one simulated run *)

\* the exception types a recipe body raises
ExceptionTypes == {"StepFailure", "ValueError"}

\* d.get(k, default) and d[k] = v on a dict
DictGet(d, k, default) == IF k \in DOMAIN d THEN d[k] ELSE default

DictPut(d, k, v) == [x \in DOMAIN d \cup {k} |-> IF x = k THEN v ELSE d[x]]

\* del d[k], and d.pop(k, default) as far as d goes
DictDel(d, k) == [x \in DOMAIN d \ {k} |-> d[x]]

\* a new dict object in memory: the heap is the sequence of the dicts made,
\* and a reference to a dict is its place in it
HeapNew(heap, d) == [heap |-> Append(heap, d), id |-> Len(heap) + 1]

\* a binding of the same dict object in place of a copy
DictSame(heap, id) == [heap |-> heap, id |-> id]

\* dict(d), lines 416 and 497: a new dict object with the entries of d
Dict(heap, id) == HeapNew(heap, heap[id])

\* a step_dict without a 'step_test_data' entry
NoFactory == [origin |-> "None"]

\* the step_dict a caller hands to open_step
CallerStepDict(name, timeout, factory) ==
  IF factory = NoFactory
    THEN [name |-> name, timeout |-> timeout, cmd |-> "given"]
    ELSE [name |-> name, timeout |-> timeout, cmd |-> "given",
          step_test_data |-> factory]

\* open_step up to the handle, lines 416-421, on the dicts in memory: the copy,
\* the pop of 'step_test_data' from it, and render_step, which copies again
\* (line 497) and puts the rendered cmd in its copy (line 526)
OpenStepDicts(heap, caller) ==
  LET copy == Dict(heap, caller)
      popped == [copy.heap EXCEPT ![copy.id] = DictDel(@, "step_test_data")]
      rendered == Dict(popped, copy.id)
  IN  [heap |-> [rendered.heap EXCEPT ![rendered.id] = DictPut(@, "cmd", "rendered")],
       id |-> rendered.id]

\* what the simulated stream of a step has captured when finalize() reads it:
\* nothing, empty lines only, or two lines with an empty one between them
CapturedTexts == {<<>>, <<NL, NL>>, <<"a", NL, NL, "b", NL>>}

\* a finalize() that keeps the empty lines
FollowupLinesUnfiltered(text) == Splitlines(text)

\* filter(None, outstream.getvalue().splitlines()), line 443
FollowupLines(text) ==
  SelectSeq(Splitlines(text), LAMBDA line : line # <<>>)

\* step_dict.get('timeout') and StepTestData.times_out_after in simulation:
\* absent (0), short and long, so that each can be below, at and above the other
SimTimeouts == {0, 1, 2}

\* the StepTestData a test registers for a step name
RegisteredFixtures ==
  [origin : {"registry"}, retcode : ReturnCodes, times_out_after : SimTimeouts]

\* the StepTestData a step's own step_test_data factory makes
FactoryFixtures ==
  {[origin |-> "factory", retcode |-> 1, times_out_after |-> 0]}

\* recipe_test_api.StepTestData(): the empty fixture
DefaultFixture == [origin |-> "default", retcode |-> 0, times_out_after |-> 0]

\* the registries a test may set up: some of the step names, each with a fixture
Registries ==
  UNION {[names -> RegisteredFixtures] : names \in SUBSET StepNames}

\* a step_dict whose 'step_test_data' entry is never looked at
TestDataFnDefaultOnly(step) == DefaultFixture

\* the factory open_step hands to pop_step_test_data, line 418
TestDataFn(step) ==
  IF step.step_test_data # NoFactory THEN step.step_test_data ELSE DefaultFixture

\* TestData.pop_step_test_data(name, fn): the registered fixture leaves the
\* registry; without one the factory is called
PopStepTestData(step_data, name, fn) ==
  IF name \in DOMAIN step_data
    THEN [step_data |-> [n \in DOMAIN step_data \ {name} |-> step_data[n]],
          step_test |-> step_data[name]]
    ELSE [step_data |-> step_data, step_test |-> fn]

\* TestData.should_raise_exception(ex): FALSE exactly for the expected
\* exception, which is then no longer expected
ShouldRaiseException(expected, ex) ==
  [should_raise |-> expected # ex,
   expected     |-> IF expected = ex THEN "None" ELSE expected]

\* TestData.consumed
Consumed(step_data, expected) == DOMAIN step_data = {} /\ expected = "None"

\* a lookup in place of the pop: the fixture stays registered
OpenStepTestDataKept(step_data, step) ==
  [PopStepTestData(step_data, step.name, TestDataFn(step))
     EXCEPT !.step_data = step_data]

\* open_step, lines 418-420: the fixture of the step and the registry after it
OpenStepTestData(step_data, step) ==
  PopStepTestData(step_data, step.name, TestDataFn(step))

\* the test of run() with the comparison turned round
SimTimesOutIfSmaller(timeout, times_out_after) ==
  timeout # 0 /\ times_out_after # 0 /\ times_out_after < timeout

\* the test of run(), lines 432-433
SimTimesOut(timeout, times_out_after) ==
  timeout # 0 /\ times_out_after # 0 /\ times_out_after > timeout

\* a history that takes a new record at its front
HistoryPutFirst(history, name, step_dict) == <<step_dict>> \o history

\* self._step_history[name] = step_dict, line 436: a new key goes to the end,
\* a key already present keeps its place and gets the new value
HistoryPut(history, name, step_dict) ==
  IF \E i \in 1..Len(history) : history[i].name = name
    THEN [i \in 1..Len(history) |->
            IF history[i].name = name THEN step_dict ELSE history[i]]
    ELSE Append(history, step_dict)

\* a run() that puts the step in the history before it looks at the timeout
HistoryAfterRunAlways(history, timed_out, name, step_dict) ==
  HistoryPut(history, name, step_dict)

\* the history after run(), lines 431-436: a run() that raises StepTimeout
\* (line 434) has left before the assignment of line 436
HistoryAfterRun(history, timed_out, name, step_dict) ==
  IF timed_out THEN history ELSE HistoryPut(history, name, step_dict)

AssertionErrorOf(step_data, expected) ==
  [type |-> "AssertionError", steps |-> DOMAIN step_data, exception |-> expected]

\* the end of run_context, lines 467-470: assert self._test_data.consumed
AssertConsumed(step_data, expected) ==
  IF Consumed(step_data, expected)
    THEN [outcome |-> "ok", error |-> NoException, expected |-> expected]
    ELSE [outcome |-> "raised", error |-> AssertionErrorOf(step_data, expected),
          expected |-> expected]

\* a run_context that swallows every exception, as SubprocessStepRunner's does
RunContextSwallowsAll(step_data, expected, raised) ==
  AssertConsumed(step_data, ShouldRaiseException(expected, raised).expected)

\* a run_context without the final assert
RunContextNoAssert(step_data, expected, raised) ==
  IF raised # "None" /\ ShouldRaiseException(expected, raised).should_raise
    THEN [outcome |-> "raised", error |-> [type |-> raised], expected |-> expected]
    ELSE [outcome |-> "ok", error |-> NoException, expected |-> expected]

\* run_context once its body has ended with exception raised or with none
\* ("None"), lines 458-470
RunContextExit(step_data, expected, raised) ==
  IF raised = "None" THEN AssertConsumed(step_data, expected)
  ELSE LET sr == ShouldRaiseException(expected, raised)
       IN  IF sr.should_raise
             THEN [outcome |-> "raised", error |-> [type |-> raised],
                   expected |-> sr.expected]
             ELSE AssertConsumed(step_data, sr.expected)

InitSim ==
  /\ s_step_data \in Registries
  /\ s_expected_exception \in ExceptionTypes \cup {"None"}
  /\ s_declared = s_expected_exception
  /\ s_registered = s_step_data
  /\ s_steps = <<>>
  /\ s_step_history = <<>>
  /\ s_heap = <<>>
  /\ s_ctx = "body"
  /\ s_raised = "None"
  /\ s_outcome = "none"
  /\ s_error = NoException

\* open_step(step_dict), lines 411-453.  The engine runs a step as soon as it
\* has opened it, so a step is opened when the ones before it have been run.
SimOpenStep ==
  /\ s_ctx = "body"
  /\ Len(s_steps) < MaxSimSteps
  /\ \A i \in 1..Len(s_steps) : s_steps[i].state # "open"
  /\ \E name \in StepNames, timeout \in SimTimeouts,
        factory \in FactoryFixtures \cup {NoFactory} :
       LET step == [name |-> name, timeout |-> timeout, step_test_data |-> factory]
           got == OpenStepTestData(s_step_data, step)
           caller == HeapNew(s_heap, CallerStepDict(name, timeout, factory))
           dicts == OpenStepDicts(caller.heap, caller.id)
       IN  /\ s_step_data' = got.step_data
           /\ s_heap' = dicts.heap
           /\ s_steps' = Append(s_steps,
                [name |-> name, timeout |-> timeout, step_test |-> got.step_test,
                 state |-> "open", result |-> NoResult, exc |-> NoException,
                 has_factory |-> factory # NoFactory,
                 was_registered |-> name \in DOMAIN s_step_data,
                 caller |-> caller.id, given |-> caller.heap[caller.id],
                 step_dict |-> dicts.id, finalized |-> FALSE, captured |-> <<>>])
  /\ UNCHANGED <<s_expected_exception, s_step_history, s_ctx, s_raised, s_outcome,
                 s_error, s_declared, s_registered>>

\* ReturnOpenStep.run(), lines 430-437
SimRun ==
  /\ s_ctx = "body"
  /\ \E i \in 1..Len(s_steps) :
       LET h == s_steps[i]
           timed_out == SimTimesOut(h.timeout, h.step_test.times_out_after)
       IN
       /\ h.state = "open"
       /\ s_step_history' =
            HistoryAfterRun(s_step_history, timed_out, h.name,
                            [name |-> h.name, timeout |-> h.timeout,
                             ref |-> h.step_dict])
       /\ s_steps' =
            IF timed_out
              THEN [s_steps EXCEPT ![i].state = "timed_out",
                                   ![i].exc = StepTimeout(h.name, h.timeout)]
              ELSE [s_steps EXCEPT ![i].state = "ran",
                                   ![i].result = StepData(h, h.step_test.retcode)]
  /\ UNCHANGED <<s_step_data, s_expected_exception, s_heap, s_ctx, s_raised,
                 s_outcome, s_error, s_declared, s_registered>>

\* ReturnOpenStep.finalize(), lines 439-447: the non-empty lines the simulated
\* stream captured go into step_dict, the dict run() put in the history
SimFinalize ==
  /\ s_ctx = "body"
  /\ \E i \in 1..Len(s_steps) : \E text \in CapturedTexts :
       LET h == s_steps[i]
           lines == FollowupLines(text)
       IN  /\ h.state # "open"
           /\ ~h.finalized
           /\ s_heap' = IF lines # <<>>
                          THEN [s_heap EXCEPT ![h.step_dict] =
                                  DictPut(@, "~followup_annotations", lines)]
                          ELSE s_heap
           /\ s_steps' = [s_steps EXCEPT ![i].finalized = TRUE,
                                          ![i].captured = text]
  /\ UNCHANGED <<s_step_data, s_expected_exception, s_step_history, s_ctx, s_raised,
                 s_outcome, s_error, s_declared, s_registered>>

\* steps_ran, lines 472-474: the dicts the history refers to, in its order
StepsRan ==
  [k \in 1..Len(s_step_history) |-> s_heap[s_step_history[k].ref]]

\* the body of run_context ends, normally or with an exception, and
\* run_context handles it
SimExit(raised) ==
  LET exit == RunContextExit(s_step_data, s_expected_exception, raised)
  IN  /\ s_ctx = "body"
      /\ s_ctx' = "exited"
      /\ s_raised' = raised
      /\ s_outcome' = exit.outcome
      /\ s_error' = exit.error
      /\ s_expected_exception' = exit.expected
      /\ UNCHANGED <<s_step_data, s_steps, s_step_history, s_heap, s_declared,
                     s_registered>>

\* the body completes
SimBodyEnds == SimExit("None")

\* the body raises
SimBodyRaises == \E ex \in ExceptionTypes : SimExit(ex)

NextSim ==
  \/ SimOpenStep /\ UNCHANGED <<lbvars, livevars, rendervars, auxvars>>
  \/ SimRun /\ UNCHANGED <<lbvars, livevars, rendervars, auxvars>>
  \/ SimBodyEnds /\ UNCHANGED <<lbvars, livevars, rendervars, auxvars>>
  \/ SimBodyRaises /\ UNCHANGED <<lbvars, livevars, rendervars, auxvars>>

\* the registries of the runs whose steps are finalized: fixtures with the
\* return code 0 that time out after 2
HistoryRegistries ==
  {reg \in Registries :
     \A name \in DOMAIN reg : reg[name].retcode = 0 /\ reg[name].times_out_after = 2}

\* a simulated run that expects no exception
InitSimHistory ==
  /\ InitSim
  /\ s_step_data \in HistoryRegistries
  /\ s_expected_exception = "None"

\* the body of a simulated run: steps are opened, run and finalized
NextSimHistory ==
  \/ SimOpenStep /\ UNCHANGED <<lbvars, livevars, rendervars, auxvars>>
  \/ SimRun /\ UNCHANGED <<lbvars, livevars, rendervars, auxvars>>
  \/ SimFinalize /\ UNCHANGED <<lbvars, livevars, rendervars, auxvars>>

----------------------------------------------------------------------------
(* render_step and construct_step_result *)

\* Python's None as the value of a step field or of a placeholder attribute
NoValue == [kind |-> "None"]

\* a Python string: a literal argv token or a file path
Str(text) == [kind |-> "str", text |-> text]

\* item.namespaces of the placeholders a recipe puts in argv
InputNamespaces == {<<"json", "input">>}

OutputNamespaces == {<<"json", "output">>, <<"raw_io", "output">>}

\* item.name: "None" for a placeholder without an explicit instance name
InstanceNames == {"None", "x", "y"}

\* what an output placeholder's result() gives back
Results == {"r1", "r2"}

\* util.InputPlaceholder instances in argv; backing_file is what render() sets
ArgvInputs ==
  [kind : {"InputPlaceholder"}, namespaces : InputNamespaces,
   name : InstanceNames, backing_file : {Str("/in")}]

\* util.OutputPlaceholder instances in argv
ArgvOutputs ==
  [kind : {"OutputPlaceholder"}, namespaces : OutputNamespaces,
   name : InstanceNames, backing_file : {Str("/out")}, res : Results]

\* the literal argv tokens
Literals == {Str("a"), Str("b")}

\* the entries of step['cmd']
CmdItems == Literals \cup ArgvInputs \cup ArgvOutputs

RECURSIVE CmdsUpTo(_)
\* every argv of at most n entries
CmdsUpTo(n) ==
  IF n = 0 THEN {<<>>}
  ELSE LET shorter == CmdsUpTo(n - 1)
       IN  shorter \cup {Append(c, i) : c \in {s \in shorter : Len(s) = n - 1},
                                       i \in CmdItems}

StdioKeys == <<"stdout", "stderr", "stdin">>

\* the placeholders a recipe gives for stdin, stdout and stderr; render() of
\* some of them leaves backing_file unset
StdioInputs ==
  [kind : {"InputPlaceholder"}, namespaces : {<<"raw_io", "input">>},
   name : {"None"}, backing_file : {NoValue, Str("/in")}]

StdioOutputs ==
  [kind : {"OutputPlaceholder"}, namespaces : {<<"raw_io", "output">>},
   name : {"None"}, backing_file : {NoValue, Str("/out")}, res : {"r1"}]

\* step.get(key) for a stdio key: absent, a plain path, or a placeholder
StdioValues == {NoValue, Str("/f")} \cup StdioInputs \cup StdioOutputs

\* a step that redirects all three streams through placeholders
AllRedirected ==
  [stdout |-> [kind |-> "OutputPlaceholder", namespaces |-> <<"raw_io", "output">>,
               name |-> "None", backing_file |-> Str("/out"), res |-> "r1"],
   stderr |-> [kind |-> "OutputPlaceholder", namespaces |-> <<"raw_io", "output">>,
               name |-> "None", backing_file |-> Str("/out"), res |-> "r1"],
   stdin |-> [kind |-> "InputPlaceholder", namespaces |-> <<"raw_io", "input">>,
              name |-> "None", backing_file |-> Str("/in")]]

\* the stdio fields of the steps rendered here: at most one stream is
\* redirected, or all three are
StdioChoices ==
  {f \in [{"stdout", "stderr", "stdin"} -> StdioValues] :
     Cardinality({k \in DOMAIN f : f[k] # NoValue}) <= 1} \cup {AllRedirected}

\* the step test data render_step is given: recipe_test_api.DisabledTestData()
\* on the live runner (line 187), a StepTestData in simulation (line 421)
StepTests == [enabled : BOOLEAN]

\* step_test.pop_placeholder(module_name, placeholder_name, item.name): the
\* fixture of the placeholder, passed through
PopPlaceholder(step_test, module_name, placeholder_name, name) == step_test

\* item.render(tdata): the argv tokens of a placeholder
Render(item, tdata) ==
  IF item.backing_file = NoValue THEN <<>> ELSE <<item.backing_file>>

\* ph.result(step_result.presentation, td)
ResultOf(ph, td) == [kind |-> "result", value |-> ph.res]

AssertionError(what) == [type |-> "AssertionError", what |-> what]

\* the instance names held by an OrderedDict of output placeholders
InstanceKeys(instances) == {instances[i].name : i \in 1..Len(instances)}

\* output_phs with one more instance, line 522
OutputPut(output_phs, module_name, placeholder_name, item, tdata) ==
  LET pholders == DictGet(output_phs, module_name, <<>>)
      instances == DictGet(pholders, placeholder_name, <<>>)
  IN  DictPut(output_phs, module_name,
        DictPut(pholders, placeholder_name,
          Append(instances, [name |-> item.name, ph |-> item, td |-> tdata])))

\* a render_step that takes an output placeholder without looking at the
\* names its group already holds
OutputNameTakenNever(output_phs, module_name, placeholder_name, name) == FALSE

\* item.name in output_phs[module_name][placeholder_name], line 518
OutputNameTaken(output_phs, module_name, placeholder_name, name) ==
  name \in InstanceKeys(DictGet(DictGet(output_phs, module_name, <<>>),
                                placeholder_name, <<>>))

\* an input_phs whose groups are keyed by instance name: an instance takes
\* the place of an earlier one of the same name
InputPutByName(input_phs, module_name, placeholder_name, item, tdata) ==
  LET pholders == DictGet(input_phs, module_name, <<>>)
      items == DictGet(pholders, placeholder_name, <<>>)
  IN  DictPut(input_phs, module_name,
        DictPut(pholders, placeholder_name,
          Append(SelectSeq(items, LAMBDA e : e[1].name # item.name),
                 <<item, tdata>>)))

\* input_phs with one more instance: the list of the group grows whatever
\* the names it holds, line 511
InputPut(input_phs, module_name, placeholder_name, item, tdata) ==
  LET pholders == DictGet(input_phs, module_name, <<>>)
      items == DictGet(pholders, placeholder_name, <<>>)
  IN  DictPut(input_phs, module_name,
        DictPut(pholders, placeholder_name, Append(items, <<item, tdata>>)))

\* a render_step that puts each literal in front of what it has rendered
AppendLiteralFront(new_cmd, item) == <<item>> \o new_cmd

\* new_cmd.append(item), line 524
AppendLiteral(new_cmd, item) == Append(new_cmd, item)

RECURSIVE RenderCmd(_, _, _, _)
\* the loop over step['cmd'], lines 504-524; acc holds new_cmd, input_phs,
\* output_phs and the assertion that failed, if one did
RenderCmd(cmd, step_test, i, acc) ==
  IF acc.error # NoException \/ i > Len(cmd) THEN acc
  ELSE
    LET item == cmd[i]
    IN  IF item.kind = "str"
          THEN RenderCmd(cmd, step_test, i + 1,
                         [acc EXCEPT !.new_cmd = AppendLiteral(@, item)])
          ELSE
            LET module_name == item.namespaces[1]
                placeholder_name == item.namespaces[2]
                tdata == PopPlaceholder(step_test, module_name, placeholder_name,
                                        item.name)
                new_cmd == acc.new_cmd \o Render(item, tdata)
            IN  IF item.kind = "InputPlaceholder"
                  THEN RenderCmd(cmd, step_test, i + 1,
                         [acc EXCEPT !.new_cmd = new_cmd,
                                     !.input_phs = InputPut(@, module_name,
                                        placeholder_name, item, tdata)])
                ELSE IF item.kind # "OutputPlaceholder"
                  THEN [acc EXCEPT !.error = AssertionError("Not an OutputPlaceholder")]
                ELSE IF OutputNameTaken(acc.output_phs, module_name,
                                        placeholder_name, item.name)
                  THEN [acc EXCEPT !.error =
                          AssertionError("multiple output placeholders")]
                ELSE RenderCmd(cmd, step_test, i + 1,
                       [acc EXCEPT !.new_cmd = new_cmd,
                                   !.output_phs = OutputPut(@, module_name,
                                      placeholder_name, item, tdata)])

\* a render_step that takes any placeholder for any stdio field
StdioKindAny(key) == {"InputPlaceholder", "OutputPlaceholder"}

\* the kind of placeholder a stdio field must hold, lines 533-538
StdioKind(key) ==
  IF key = "stdin" THEN {"InputPlaceholder"} ELSE {"OutputPlaceholder"}

RECURSIVE RenderStdio(_, _, _, _)
\* the loop over 'stdout', 'stderr' and 'stdin', lines 529-543; acc holds
\* rendered_step, stdio_placeholders and the assertion that failed
RenderStdio(step, step_test, i, acc) ==
  IF acc.error # NoException \/ i > Len(StdioKeys) THEN acc
  ELSE
    LET key == StdioKeys[i]
        placeholder == step[key]
    IN  IF placeholder = NoValue
          THEN RenderStdio(step, step_test, i + 1,
                 [acc EXCEPT !.stdio_placeholders[key] =
                               [ph |-> placeholder, td |-> NoValue]])
        ELSE IF placeholder.kind \notin StdioKind(key)
          THEN [acc EXCEPT !.error =
                  AssertionError(IF key = "stdin"
                                   THEN "should be an InputPlaceholder"
                                   ELSE "should be an OutputPlaceholder")]
        ELSE IF placeholder.backing_file = NoValue
          THEN [acc EXCEPT !.error = AssertionError("backing_file is None")]
        ELSE RenderStdio(step, step_test, i + 1,
               [acc EXCEPT !.rendered_step[key] = placeholder.backing_file,
                           !.stdio_placeholders[key] =
                              [ph |-> placeholder, td |-> step_test]])

\* render_step(step, step_test), lines 486-546: the assertion that failed, or
\* the rendered step and the Placeholders tuple
RenderStep(step, step_test) ==
  LET c == RenderCmd(step.cmd, step_test, 1,
                     [new_cmd |-> <<>>, input_phs |-> <<>>, output_phs |-> <<>>,
                      error |-> NoException])
      s == RenderStdio(step, step_test, 1,
                       [rendered_step |-> [step EXCEPT !.cmd = c.new_cmd],
                        stdio_placeholders |->
                          [k \in {"stdout", "stderr", "stdin"} |-> NoValue],
                        error |-> NoException])
  IN  IF c.error # NoException
        THEN [error |-> c.error, rendered_step |-> NoValue, placeholders |-> NoValue]
      ELSE IF s.error # NoException
        THEN [error |-> s.error, rendered_step |-> NoValue, placeholders |-> NoValue]
      ELSE [error |-> NoException,
            rendered_step |-> s.rendered_step,
            placeholders |-> [inputs_cmd |-> c.input_phs,
                              outputs_cmd |-> c.output_phs,
                              stdout |-> s.stdio_placeholders["stdout"],
                              stderr |-> s.stdio_placeholders["stderr"],
                              stdin |-> s.stdio_placeholders["stdin"]]]

\* UNSET_VALUE, line 483
UNSET_VALUE == [kind |-> "UNSET_VALUE"]

RECURSIVE SeqOf(_)
\* the keys of a dict in the order iteritems() goes through them
SeqOf(S) ==
  IF S = {} THEN <<>>
  ELSE LET k == CHOOSE x \in S : TRUE IN <<k>> \o SeqOf(S \ {k})

\* a construct_step_result that leaves the input placeholders alone
CleanupSkipped(ph, td) == <<>>

\* ph.cleanup(td.enabled), lines 566 and 604: the call made on the placeholder
Cleanup(ph, td) == <<[ph |-> ph, enabled |-> td.enabled]>>

RECURSIVE CleanupItems(_, _)
\* for ph, td in items: ph.cleanup(td.enabled), lines 565-566
CleanupItems(items, cleanups) ==
  IF items = <<>> THEN cleanups
  ELSE CleanupItems(Tail(items),
                    cleanups \o Cleanup(Head(items)[1], Head(items)[2]))

RECURSIVE CleanupGroups(_, _, _)
\* the loop over the groups of one module, lines 564-566
CleanupGroups(pholders, names, cleanups) ==
  IF names = <<>> THEN cleanups
  ELSE CleanupGroups(pholders, Tail(names),
                     CleanupItems(pholders[Head(names)], cleanups))

RECURSIVE CleanupInputs(_, _, _)
\* the loop over placeholders.inputs_cmd, lines 563-566
CleanupInputs(inputs_cmd, modules, cleanups) ==
  IF modules = <<>> THEN cleanups
  ELSE CleanupInputs(inputs_cmd, Tail(modules),
         CleanupGroups(inputs_cmd[Head(modules)],
                       SeqOf(DOMAIN inputs_cmd[Head(modules)]), cleanups))

\* a construct_step_result in which every instance, named or not, becomes
\* the default of its group
GroupResultLastIsDefault(acc, ph, result) ==
  [named_results |-> IF ph.name = "None" THEN acc.named_results
                     ELSE DictPut(acc.named_results, ph.name, result),
   default_result |-> result]

\* one instance of a group: lines 578-582
GroupResult(acc, ph, result) ==
  IF ph.name = "None"
    THEN [acc EXCEPT !.default_result = result]
    ELSE [acc EXCEPT !.named_results = DictPut(@, ph.name, result)]

RECURSIVE GroupResults(_, _)
\* the loop over the instances of one group, lines 575-582
GroupResults(instances, acc) ==
  IF instances = <<>> THEN acc
  ELSE LET ph == Head(instances).ph
           td == Head(instances).td
       IN  GroupResults(Tail(instances), GroupResult(acc, ph, ResultOf(ph, td)))

\* a construct_step_result that sets a default whenever the group has a
\* named result
DefaultResultAnyNamed(r) ==
  IF r.default_result = UNSET_VALUE /\ r.named_results # <<>>
    THEN r.named_results[CHOOSE n \in DOMAIN r.named_results : TRUE]
    ELSE r.default_result

\* a construct_step_result in which only an unnamed instance gives a default
DefaultResultOnlyUnnamed(r) == r.default_result

\* the default of a group after the loop, lines 585-588: a lone named result
\* stands in when no instance is unnamed
DefaultResult(r) ==
  IF r.default_result = UNSET_VALUE /\ Cardinality(DOMAIN r.named_results) = 1
    THEN r.named_results[CHOOSE n \in DOMAIN r.named_results : TRUE]
    ELSE r.default_result

RECURSIVE OutputGroups(_, _, _)
\* the loop over the groups of one module, lines 574-592: o gets
\* placeholder_name + "s" and, when there is a default, placeholder_name
OutputGroups(pholders, names, o) ==
  IF names = <<>> THEN o
  ELSE
    LET placeholder_name == Head(names)
        r == GroupResults(pholders[placeholder_name],
                          [named_results |-> <<>>, default_result |-> UNSET_VALUE])
        default_result == DefaultResult(r)
        withNamed == DictPut(o, placeholder_name \o "s", r.named_results)
    IN  OutputGroups(pholders, Tail(names),
          IF default_result # UNSET_VALUE
            THEN DictPut(withNamed, placeholder_name, default_result)
            ELSE withNamed)

RECURSIVE OutputModules(_, _, _)
\* the loop over placeholders.outputs_cmd, lines 569-592; acc holds the
\* attributes set on step_result and the assertion that failed
OutputModules(outputs_cmd, modules, acc) ==
  IF acc.error # NoException \/ modules = <<>> THEN acc
  ELSE
    LET module_name == Head(modules)
    IN  IF module_name \in DOMAIN acc.attrs
          THEN [acc EXCEPT !.error = AssertionError("hasattr")]
          ELSE OutputModules(outputs_cmd, Tail(modules),
                 [acc EXCEPT !.attrs = DictPut(@, module_name,
                    OutputGroups(outputs_cmd[module_name],
                                 SeqOf(DOMAIN outputs_cmd[module_name]), <<>>))])

RECURSIVE StdioResults(_, _, _)
\* the loop over 'stdout', 'stderr' and 'stdin', lines 595-604
StdioResults(placeholders, i, acc) ==
  IF acc.error # NoException \/ i > Len(StdioKeys) THEN acc
  ELSE
    LET key == StdioKeys[i]
        ph == placeholders[key].ph
        td == placeholders[key].td
    IN  IF key \in DOMAIN acc.attrs
          THEN [acc EXCEPT !.error = AssertionError("hasattr")]
        ELSE IF ph = NoValue
          THEN StdioResults(placeholders, i + 1, acc)
        ELSE IF ph.kind = "OutputPlaceholder"
          THEN StdioResults(placeholders, i + 1,
                 [acc EXCEPT !.attrs = DictPut(@, key, ResultOf(ph, td))])
        ELSE IF ph.kind # "InputPlaceholder"
          THEN [acc EXCEPT !.error = AssertionError("should be an InputPlaceholder")]
        ELSE StdioResults(placeholders, i + 1,
               [acc EXCEPT !.cleanups = @ \o Cleanup(ph, td)])

\* construct_step_result(step, retcode, placeholders), lines 549-606: the
\* StepData, the attributes set on it, the cleanup calls made, in order, and
\* the assertion that failed, if one did
ConstructStepResult(step, retcode, placeholders) ==
  LET cleaned == CleanupInputs(placeholders.inputs_cmd,
                               SeqOf(DOMAIN placeholders.inputs_cmd), <<>>)
      outs == OutputModules(placeholders.outputs_cmd,
                            SeqOf(DOMAIN placeholders.outputs_cmd),
                            [data |-> StepData(step, retcode), attrs |-> <<>>,
                             cleanups |-> cleaned, error |-> NoException])
  IN  StdioResults(placeholders, 1, outs)

\* the step descriptors rendered here
RenderSteps ==
  {[name |-> "compile", cmd |-> cmd, stdout |-> io.stdout, stderr |-> io.stderr,
    stdin |-> io.stdin] : cmd \in CmdsUpTo(MaxCmd), io \in StdioChoices}

\* no step has been handed to render_step
InitIdleRender ==
  /\ r_pc = "idle"
  /\ r_step = NoValue
  /\ r_step_test = NoValue
  /\ r_render = NoValue
  /\ r_construct = NoValue

\* a step and its test data are about to be rendered
InitRender ==
  /\ r_pc = "step"
  /\ r_step \in RenderSteps
  /\ r_step_test \in StepTests
  /\ r_render = NoValue
  /\ r_construct = NoValue

\* render_step(step, step_test) is called (lines 186-187 and 421)
RenderStepCall ==
  /\ r_pc = "step"
  /\ r_render' = RenderStep(r_step, r_step_test)
  /\ r_pc' = IF r_render'.error = NoException THEN "rendered" ELSE "failed"
  /\ UNCHANGED <<r_step, r_step_test, r_construct>>

\* construct_step_result(step, retcode, placeholders) is called on what
\* render_step returned (lines 229 and 437)
ConstructStepResultCall ==
  /\ r_pc = "rendered"
  /\ \E retcode \in ReturnCodes :
       r_construct' = ConstructStepResult(r_render.rendered_step, retcode,
                                          r_render.placeholders)
  /\ r_pc' = "constructed"
  /\ UNCHANGED <<r_step, r_step_test, r_render>>

NextRender ==
  \/ RenderStepCall /\ UNCHANGED <<lbvars, livevars, simvars, auxvars>>
  \/ ConstructStepResultCall /\ UNCHANGED <<lbvars, livevars, simvars, auxvars>>

----------------------------------------------------------------------------
(* _merge_envs *)

\* the names of the environment variables
EnvKeys == {"PATH", "A"}

\* the values of the original environment: strings without a % in them
EnvValues == {<<"x">>, <<"z">>}

\* os.environ, or any dict handed in as original
Environments ==
  UNION {[keys -> EnvValues] : keys \in SUBSET EnvKeys}

\* the parts of an override value: literal text, and the token %(KEY)s
Lit(c) == [part |-> "lit", text |-> c]
Token(k) == [part |-> "token", key |-> k]
OverrideParts == {Lit("y")} \cup {Token(k) : k \in EnvKeys}

\* the values of an override: None, or a string of text and tokens
OverrideValues ==
  {NoValue} \cup
  {[kind |-> "str", parts |-> ps] : ps \in StringsUpTo(OverrideParts, MaxEnvVal)}

Overrides ==
  UNION {[keys -> OverrideValues] : keys \in SUBSET EnvKeys}

KeyError(k) == [type |-> "KeyError", key |-> k]

RECURSIVE Format(_, _, _)
\* str(v) % env, line 626: each %(KEY)s gives env[KEY], and raises KeyError
\* when env has no KEY; acc is the text so far
Format(parts, env, acc) ==
  IF parts = <<>> THEN [error |-> NoException, text |-> acc]
  ELSE LET part == Head(parts) IN
       IF part.part = "lit"
         THEN Format(Tail(parts), env, Append(acc, part.text))
       ELSE IF part.key \in DOMAIN env
         THEN Format(Tail(parts), env, acc \o env[part.key])
       ELSE [error |-> KeyError(part.key), text |-> acc]

\* a loop body that resolves the tokens against the result so far
MergeEntryAgainstResult(original, result, k, v) ==
  IF v = NoValue
    THEN [error |-> NoException, result |-> DictDel(result, k)]
    ELSE LET f == Format(v.parts, result, <<>>)
         IN  [error |-> f.error,
              result |-> IF f.error = NoException
                           THEN DictPut(result, k, f.text) ELSE result]

\* the body of the loop for the entry k, v of override, lines 622-626
MergeEntry(original, result, k, v) ==
  IF v = NoValue
    THEN [error |-> NoException, result |-> DictDel(result, k)]
    ELSE LET f == Format(v.parts, original, <<>>)
         IN  [error |-> f.error,
              result |-> IF f.error = NoException
                           THEN DictPut(result, k, f.text) ELSE result]

\* no call of _merge_envs
InitIdleEnv ==
  /\ e_pc = "idle"
  /\ e_heap = [original |-> <<>>]
  /\ e_given = <<>>
  /\ e_override = <<>>
  /\ e_todo = {}
  /\ e_result = "None"
  /\ e_error = NoException

\* _merge_envs(original, override) is called
InitEnv ==
  /\ e_pc = "called"
  /\ e_given \in Environments
  /\ e_heap = [original |-> e_given]
  /\ e_override \in Overrides
  /\ e_todo = {}
  /\ e_result = "None"
  /\ e_error = NoException

\* result = original.copy(), and the return of it when override is empty,
\* lines 618-620
MergeCopy ==
  /\ e_pc = "called"
  /\ e_heap' = [original |-> e_heap.original, copy |-> e_heap.original]
  /\ e_result' = "copy"
  /\ e_todo' = DOMAIN e_override
  /\ e_pc' = IF DOMAIN e_override = {} THEN "returned" ELSE "merging"
  /\ UNCHANGED <<e_given, e_override, e_error>>

\* one iteration of the loop over override.items(), lines 621-626, in the
\* order the dict gives its items
MergeLoop ==
  /\ e_pc = "merging"
  /\ \E k \in e_todo :
       LET m == MergeEntry(e_heap.original, e_heap[e_result], k, e_override[k])
       IN  /\ e_heap' = [e_heap EXCEPT ![e_result] = m.result]
           /\ e_error' = m.error
           /\ e_todo' = e_todo \ {k}
           /\ e_pc' = IF m.error # NoException THEN "raised" ELSE "merging"
  /\ UNCHANGED <<e_given, e_override, e_result>>

\* return result, line 627
MergeReturn ==
  /\ e_pc = "merging"
  /\ e_todo = {}
  /\ e_pc' = "returned"
  /\ UNCHANGED <<e_heap, e_given, e_override, e_todo, e_result, e_error>>

NextEnv ==
  \/ MergeCopy /\ UNCHANGED <<lbvars, livevars, simvars, rendervars, lcvars, replayvars,
                             taskvars, extvars>>
  \/ MergeLoop /\ UNCHANGED <<lbvars, livevars, simvars, rendervars, lcvars, replayvars,
                             taskvars, extvars>>
  \/ MergeReturn /\ UNCHANGED <<lbvars, livevars, simvars, rendervars, lcvars, replayvars,
                             taskvars, extvars>>

----------------------------------------------------------------------------
(* One step descriptor on both runners *)

\* recipe_test_api.DisabledTestData(), line 187: the test data of a live step
DisabledTestData == [enabled |-> FALSE]

\* the test data of a simulated step, lines 418-420
EnabledTestData == [enabled |-> TRUE]

\* what open_step and run() give: the exception raised, or the StepData with
\* the attributes set on it
Opened(error, data, attrs) == [error |-> error, data |-> data, attrs |-> attrs]

\* render_step then construct_step_result, as both runners call them
\* (lines 186-187 with 229, and 421 with 437)
RenderAndConstruct(step, step_test, retcode) ==
  LET r == RenderStep(step, step_test)
  IN  IF r.error # NoException THEN Opened(r.error, NoResult, <<>>)
      ELSE LET c == ConstructStepResult(r.rendered_step, retcode, r.placeholders)
           IN  Opened(c.error, c.data, c.attrs)

\* a live runner that returns the bare StepData of every step
LiveStepResultBare(step, retcode) ==
  Opened(NoException, StepData(step, retcode), <<>>)

\* open_step and run() of the live runner for a child that exits with
\* retcode, lines 165-229: a step without a command is neither rendered nor
\* run, and its StepData has the return code 0
LiveStepResult(step, retcode) ==
  IF step.cmd = <<>>
    THEN Opened(NoException, StepData(step, 0), <<>>)
    ELSE RenderAndConstruct(step, DisabledTestData, retcode)

\* open_step and run() of the simulation runner for test data with retcode,
\* lines 411-437
SimStepResult(step, retcode) ==
  RenderAndConstruct(step, EnabledTestData, retcode)

\* no step is run on both runners
InitIdleReplay ==
  /\ q_step = NoValue
  /\ q_retcode = 0
  /\ q_live = NoValue
  /\ q_sim = NoValue

\* a step descriptor, and the return code of its child and of its test data
InitReplay ==
  /\ q_step \in RenderSteps
  /\ q_retcode \in ReturnCodes
  /\ q_live = NoValue
  /\ q_sim = NoValue

\* the step is opened and run on the live runner
LiveOpenAndRun ==
  /\ q_step # NoValue
  /\ q_live = NoValue
  /\ q_live' = LiveStepResult(q_step, q_retcode)
  /\ UNCHANGED <<q_step, q_retcode, q_sim>>

\* the step is opened and run on the simulation runner
SimOpenAndRun ==
  /\ q_step # NoValue
  /\ q_sim = NoValue
  /\ q_sim' = SimStepResult(q_step, q_retcode)
  /\ UNCHANGED <<q_step, q_retcode, q_live>>

NextReplay ==
  \/ LiveOpenAndRun /\ UNCHANGED <<lbvars, livevars, simvars, rendervars, lcvars, envvars,
                                  taskvars, extvars>>
  \/ SimOpenAndRun /\ UNCHANGED <<lbvars, livevars, simvars, rendervars, lcvars, envvars,
                                  taskvars, extvars>>

----------------------------------------------------------------------------
(* Tasks that run live steps *)

Tasks == 1..MaxTasks

\* how many lines one iteration of the polling loop forwards here
LinesPerPoll == 2

\* where a task may be: in the recipe's code, at the top of the polling loop
\* of its step (line 343), forwarding the lines of one iteration
\* (lines 354-355), in futures.wait, in an explicit yield, or at its end
Positions == {"code", "top", "write", "wait", "yield", "end", "tested", "assign",
              "chan.put", "put", "chan.get", "get"}

\* where gevent may switch to another greenlet: at a wait for futures, at an
\* explicit yield, at the end of a greenlet, and in the put and the get of a
\* channel
SuspensionPositions == {"wait", "yield", "end", "put", "get"}

\* the calls that give the thread to the hub: those of gevent that block
SuspendingCalls == {"sleep", "wait", "iwait", "get", "put", "join"}

\* a polling loop that sleeps in gevent between two lines
LoopCallsWithSleep ==
  {"yield_any", "time", "dict.get", "ingest", "get_buffered", "write_line", "sleep"}

\* what the polling loop calls, lines 343-355: proc.yield_any, time.time,
\* linebufs.get (a dict's), buf.ingest, buf.get_buffered and write_line of
\* the step stream
LoopCalls == {"yield_any", "time", "dict.get", "ingest", "get_buffered", "write_line"}

\* the task at this position may give up the thread
CanSuspend(at) ==
  \/ at \in SuspensionPositions
  \/ at \in {"top", "write"} /\ LoopCalls \cap SuspendingCalls # {}

\* a task not yet spawned.  started: the greenlet has run some of its code;
\* waitfor: the tasks whose futures it waits for; ret: the future a spawn
\* inside the guarded pattern returned to it, 0 for none; chan: the channel
\* of an _immediate_runner ("none" for any other task, else "empty", "put"
\* once the put of its spawner is pending, "taken" once it got the item);
\* putfor: the task a spawn_immediate of this task has made, 0 for none
Unspawned == [state |-> "unspawned", at |-> "code", pending |-> 0, polls |-> 0,
              stepped |-> FALSE, started |-> FALSE, waitfor |-> {}, ret |-> 0,
              chan |-> "none", putfor |-> 0]

\* a greenlet that concurrency_client.spawn has made: it has not run yet
Spawned == [Unspawned EXCEPT !.state = "ready"]

\* the greenlet of the main task: it runs
MainTask == [Spawned EXCEPT !.started = TRUE]

\* no recipe with tasks runs
InitIdleTasks ==
  /\ t_tasks = <<>>
  /\ t_current = 0
  /\ t_sink = <<>>
  /\ t_concurrency = TRUE
  /\ t_my_future = 0

\* the main task of a recipe runs
InitTasks ==
  /\ t_tasks = [t \in Tasks |-> IF t = 1 THEN MainTask ELSE Unspawned]
  /\ t_current = 1
  /\ t_sink = <<>>
  /\ t_concurrency = TRUE
  /\ t_my_future = 0

\* the main task of a recipe runs, with or without support for concurrency
InitFutures ==
  /\ t_tasks = [t \in Tasks |-> IF t = 1 THEN MainTask ELSE Unspawned]
  /\ t_current = 1
  /\ t_sink = <<>>
  /\ t_concurrency \in BOOLEAN
  /\ t_my_future = 0

\* the current task is in the recipe's code
InCode == t_current \in Tasks /\ t_tasks[t_current].at = "code"

\* a spawn that switches to the greenlet it has made
AfterSpawnSwitched(caller, spawned) == spawned

\* the task that holds the thread once futures.spawn has made the greenlet,
\* lines 130-137 and 151-152: spawn does not switch, the caller keeps it
AfterSpawn(caller, spawned) == caller

\* futures.spawn(func), lines 119-156, in the recipe's code or inside the
\* guarded pattern of lines 136-137: a greenlet is made and the caller goes
\* on; without support for concurrency the caller waits for the new future
\* (lines 153-155) before spawn returns
FuturesSpawn ==
  /\ t_current \in Tasks
  /\ t_tasks[t_current].at \in {"code", "tested"}
  /\ \E t \in Tasks :
       /\ t_tasks[t].state = "unspawned"
       /\ LET guarded == t_tasks[t_current].at = "tested"
              holder == AfterSpawn(t_current, t)
          IN /\ t_tasks' =
                  [t_tasks EXCEPT
                     ![t] = [Spawned EXCEPT !.started = (holder = t)],
                     ![t_current].ret = IF guarded THEN t ELSE 0,
                     ![t_current].waitfor = IF t_concurrency THEN {} ELSE {t},
                     ![t_current].at = IF ~t_concurrency THEN "wait"
                                       ELSE IF guarded THEN "assign" ELSE "code"]
             /\ t_current' = holder
  /\ UNCHANGED <<t_sink, t_concurrency, t_my_future>>

\* make_channel without support for concurrency, lines 113-115: ValueError
\* leaves spawn_immediate (line 175) and ends the function of the task
MakeChannelRaises ==
  /\ InCode
  /\ ~t_concurrency
  /\ t_tasks' = [t_tasks EXCEPT ![t_current].at = "end",
                                ![t_current].state = "raised"]
  /\ UNCHANGED <<t_current, t_sink, t_concurrency, t_my_future>>

\* futures.spawn_immediate(func), lines 174-179: a channel is made, and
\* spawn makes the greenlet of _immediate_runner, whose first statement is
\* chan.get()
FuturesSpawnImmediate ==
  /\ InCode
  /\ t_concurrency
  /\ \E t \in Tasks :
       /\ t_tasks[t].state = "unspawned"
       /\ LET holder == AfterSpawn(t_current, t)
          IN /\ t_tasks' =
                  [t_tasks EXCEPT
                     ![t] = [Spawned EXCEPT !.at = "chan.get", !.chan = "empty",
                                            !.started = (holder = t)],
                     ![t_current].putfor = t,
                     ![t_current].at = "chan.put"]
             /\ t_current' = holder
  /\ UNCHANGED <<t_sink, t_concurrency, t_my_future>>

\* a put that returns at once, whether or not the item was taken
ChannelPutWithoutBlocking ==
  /\ t_current \in Tasks
  /\ t_tasks[t_current].at = "chan.put"
  /\ t_tasks' = [t_tasks EXCEPT ![t_current].at = "code",
                                ![t_tasks[t_current].putfor].chan = "put"]
  /\ UNCHANGED <<t_current, t_sink, t_concurrency, t_my_future>>

\* chan.put(None), line 180: the item is offered and the caller blocks until
\* _immediate_runner has taken it
ChannelPut ==
  /\ t_current \in Tasks
  /\ t_tasks[t_current].at = "chan.put"
  /\ t_tasks' = [t_tasks EXCEPT ![t_current].at = "put",
                                ![t_tasks[t_current].putfor].chan = "put"]
  /\ UNCHANGED <<t_current, t_sink, t_concurrency, t_my_future>>

\* chan.get() of _immediate_runner, line 177: it takes the item that was put
\* and goes on to func (line 178), or blocks until an item is put
ChannelGet ==
  /\ t_current \in Tasks
  /\ t_tasks[t_current].at = "chan.get"
  /\ t_tasks' = IF t_tasks[t_current].chan = "put"
                  THEN [t_tasks EXCEPT ![t_current].at = "code",
                                       ![t_current].chan = "taken"]
                  ELSE [t_tasks EXCEPT ![t_current].at = "get"]
  /\ UNCHANGED <<t_current, t_sink, t_concurrency, t_my_future>>

\* "if not self._my_future:", line 136, finds the future unset
GuardedTest ==
  /\ InCode
  /\ t_my_future = 0
  /\ t_tasks' = [t_tasks EXCEPT ![t_current].at = "tested"]
  /\ UNCHANGED <<t_current, t_sink, t_concurrency, t_my_future>>

\* "self._my_future = ...", line 137: what spawn returned is assigned
GuardedAssign ==
  /\ t_current \in Tasks
  /\ t_tasks[t_current].at = "assign"
  /\ t_my_future' = t_tasks[t_current].ret
  /\ t_tasks' = [t_tasks EXCEPT ![t_current].at = "code",
                                ![t_current].ret = 0]
  /\ UNCHANGED <<t_current, t_sink, t_concurrency>>

\* futures.wait(futures), lines 183-200, on the futures of the other tasks
FuturesWait ==
  /\ InCode
  /\ t_tasks' = [t_tasks EXCEPT ![t_current].at = "wait",
                                ![t_current].waitfor = Tasks \ {t_current}]
  /\ UNCHANGED <<t_current, t_sink, t_concurrency, t_my_future>>

\* an explicit yield: gevent.sleep(0)
ExplicitYield ==
  /\ InCode
  /\ t_tasks' = [t_tasks EXCEPT ![t_current].at = "yield"]
  /\ UNCHANGED <<t_current, t_sink, t_concurrency, t_my_future>>

\* the task runs a live step: run() reaches the polling loop (lines 340-343)
TaskStepStart ==
  /\ InCode
  /\ ~t_tasks[t_current].stepped
  /\ t_tasks' = [t_tasks EXCEPT ![t_current].at = "top",
                                ![t_current].stepped = TRUE]
  /\ UNCHANGED <<t_current, t_sink, t_concurrency, t_my_future>>

\* yield_any yields data and the line buffer takes it in (lines 343-353)
TaskPollIngest ==
  /\ t_current \in Tasks
  /\ t_tasks[t_current].at = "top"
  /\ t_tasks[t_current].polls < MaxPolls
  /\ t_tasks' = [t_tasks EXCEPT ![t_current].at = "write",
                                ![t_current].pending = LinesPerPoll]
  /\ UNCHANGED <<t_current, t_sink, t_concurrency, t_my_future>>

\* one line of the iteration is forwarded (lines 354-355)
TaskWriteLine ==
  /\ t_current \in Tasks
  /\ t_tasks[t_current].at = "write"
  /\ t_sink' = Append(t_sink, [step |-> t_current, reader |-> t_current,
                               poll |-> t_tasks[t_current].polls + 1])
  /\ t_tasks' = IF t_tasks[t_current].pending = 1
                  THEN [t_tasks EXCEPT ![t_current].at = "top",
                                       ![t_current].pending = 0,
                                       ![t_current].polls = @ + 1]
                  ELSE [t_tasks EXCEPT ![t_current].pending = @ - 1]
  /\ UNCHANGED <<t_current, t_concurrency, t_my_future>>

\* yield_any ends and run() returns (lines 343 and 359)
TaskLoopEnd ==
  /\ t_current \in Tasks
  /\ t_tasks[t_current].at = "top"
  /\ t_tasks' = [t_tasks EXCEPT ![t_current].at = "code"]
  /\ UNCHANGED <<t_current, t_sink, t_concurrency, t_my_future>>

\* the function of the task returns
TaskFinish ==
  /\ InCode
  /\ t_tasks' = [t_tasks EXCEPT ![t_current].at = "end",
                                ![t_current].state = "done"]
  /\ UNCHANGED <<t_current, t_sink, t_concurrency, t_my_future>>

\* task t can take the thread: it is a greenlet that has not ended; the
\* futures it waits for, if it waits, are done; the item it has put, if it
\* is in a put, was taken; an item was put, if it is in a get
Runnable(t) ==
  /\ t_tasks[t].state = "ready"
  /\ t_tasks[t].at = "wait" =>
        \A u \in t_tasks[t].waitfor :
           t_tasks[u].state \in {"unspawned", "done", "raised"}
  /\ t_tasks[t].at = "put" => t_tasks[t_tasks[t].putfor].chan = "taken"
  /\ t_tasks[t].at = "get" => t_tasks[t].chan = "put"

\* where a task that the hub resumes goes on: after the assignment of the
\* guarded pattern if its spawn returns there, else in its code
Resumed(task) ==
  [task EXCEPT !.started = TRUE,
               !.waitfor = {},
               !.chan = IF task.at = "get" THEN "taken" ELSE @,
               !.at = IF task.at = "wait" /\ task.ret # 0 THEN "assign"
                      ELSE IF task.at \in {"wait", "yield", "put", "get"} THEN "code"
                      ELSE @]

\* the hub switches: the current task is at a suspension point and a task
\* that can run takes the thread; a task that waited, yielded, or was in a
\* put or a get goes on in its code
HubSwitch ==
  /\ t_current \in Tasks
  /\ CanSuspend(t_tasks[t_current].at)
  /\ \E t \in Tasks :
       /\ Runnable(t)
       /\ t_current' = t
       /\ t_tasks' = [t_tasks EXCEPT ![t] = Resumed(t_tasks[t])]
  /\ UNCHANGED <<t_sink, t_concurrency, t_my_future>>

NextTasks ==
  \/ FuturesSpawn /\ UNCHANGED <<lbvars, livevars, simvars, rendervars, lcvars,
                                 envvars, replayvars, extvars>>
  \/ FuturesWait /\ UNCHANGED <<lbvars, livevars, simvars, rendervars, lcvars,
                                 envvars, replayvars, extvars>>
  \/ ExplicitYield /\ UNCHANGED <<lbvars, livevars, simvars, rendervars, lcvars,
                                 envvars, replayvars, extvars>>
  \/ TaskStepStart /\ UNCHANGED <<lbvars, livevars, simvars, rendervars, lcvars,
                                 envvars, replayvars, extvars>>
  \/ TaskPollIngest /\ UNCHANGED <<lbvars, livevars, simvars, rendervars, lcvars,
                                 envvars, replayvars, extvars>>
  \/ TaskWriteLine /\ UNCHANGED <<lbvars, livevars, simvars, rendervars, lcvars,
                                 envvars, replayvars, extvars>>
  \/ TaskLoopEnd /\ UNCHANGED <<lbvars, livevars, simvars, rendervars, lcvars,
                                 envvars, replayvars, extvars>>
  \/ TaskFinish /\ UNCHANGED <<lbvars, livevars, simvars, rendervars, lcvars,
                                 envvars, replayvars, extvars>>
  \/ HubSwitch /\ UNCHANGED <<lbvars, livevars, simvars, rendervars, lcvars,
                                 envvars, replayvars, extvars>>

\* tasks that spawn tasks, wait for them and pass control through channels
NextFutures ==
  \/ FuturesSpawn /\ UNCHANGED <<lbvars, livevars, simvars, rendervars, lcvars,
                                 envvars, replayvars, extvars>>
  \/ FuturesSpawnImmediate /\ UNCHANGED <<lbvars, livevars, simvars, rendervars, lcvars,
                                 envvars, replayvars, extvars>>
  \/ MakeChannelRaises /\ UNCHANGED <<lbvars, livevars, simvars, rendervars, lcvars,
                                 envvars, replayvars, extvars>>
  \/ ChannelPut /\ UNCHANGED <<lbvars, livevars, simvars, rendervars, lcvars,
                                 envvars, replayvars, extvars>>
  \/ ChannelGet /\ UNCHANGED <<lbvars, livevars, simvars, rendervars, lcvars,
                                 envvars, replayvars, extvars>>
  \/ GuardedTest /\ UNCHANGED <<lbvars, livevars, simvars, rendervars, lcvars,
                                 envvars, replayvars, extvars>>
  \/ GuardedAssign /\ UNCHANGED <<lbvars, livevars, simvars, rendervars, lcvars,
                                 envvars, replayvars, extvars>>
  \/ FuturesWait /\ UNCHANGED <<lbvars, livevars, simvars, rendervars, lcvars,
                                 envvars, replayvars, extvars>>
  \/ ExplicitYield /\ UNCHANGED <<lbvars, livevars, simvars, rendervars, lcvars,
                                 envvars, replayvars, extvars>>
  \/ TaskFinish /\ UNCHANGED <<lbvars, livevars, simvars, rendervars, lcvars,
                                 envvars, replayvars, extvars>>
  \/ HubSwitch /\ UNCHANGED <<lbvars, livevars, simvars, rendervars, lcvars,
                                 envvars, replayvars, extvars>>

----------------------------------------------------------------------------
(* recipe_engine/fetch.py: _retry and the checkout of the two backends *)

\* how often the loop of the wrapper invokes f before the last invocation,
\* range(5) on line 57
Retries == 5

\* a wrapper that also retries after a FetchError
TransientErrorsWithFetchError ==
  {"RequestException", "CalledProcessError", "FetchNotAllowedError", "FetchError"}

\* the exceptions after which the wrapper retries, lines 60-61
TransientErrors == {"RequestException", "CalledProcessError"}

\* what needs the network: git clone, git fetch and an HTTP request
NetworkOperations == {"clone", "fetch", "request"}

\* random.uniform(2, 5), line 56: the ends of the interval stand for it
Delays == {2, 5}

NoOutcome == [kind |-> "none", exc |-> "None"]

\* no checkout is under way
InitIdleFetch ==
  /\ f_pc = "idle"
  /\ f_backend = "git"
  /\ f_allow_fetch = FALSE
  /\ f_dir = "missing"
  /\ f_has_rev = FALSE
  /\ f_ran = {}
  /\ f_calls = 0
  /\ f_errors = <<>>
  /\ f_sleeps = <<>>
  /\ f_delay = 0
  /\ f_outcome = NoOutcome

\* checkout(repo, revision, checkout_dir, allow_fetch) is called on a backend;
\* only a git repository can hold the revision
InitFetch ==
  /\ f_pc = "called"
  /\ f_backend \in {"git", "gitiles"}
  /\ f_allow_fetch \in BOOLEAN
  /\ f_dir \in {"missing", "plain", "repo"}
  /\ f_has_rev \in BOOLEAN
  /\ f_has_rev => f_dir = "repo"
  /\ f_ran = {}
  /\ f_calls = 0
  /\ f_errors = <<>>
  /\ f_sleeps = <<>>
  /\ f_delay = 0
  /\ f_outcome = NoOutcome

\* the first line of the checkout of the backend
FirstLine == IF f_backend = "git" THEN "git.isdir" ELSE "gitiles.allow"

\* the wrapper starts, lines 55-59: the delay is drawn and f is invoked
RetryCall ==
  /\ f_pc = "called"
  /\ \E d \in Delays : f_delay' = d
  /\ f_calls' = 1
  /\ f_pc' = FirstLine
  /\ UNCHANGED <<f_backend, f_allow_fetch, f_dir, f_has_rev, f_ran, f_errors,
                 f_sleeps, f_outcome>>

\* an invocation of f ends with exc, lines 57-66: inside the loop a transient
\* error is logged, the wrapper sleeps, doubles the delay and invokes f
\* again; any other exception, and any exception of the invocation after
\* the loop, leaves the wrapper
Raises(exc) ==
  /\ f_errors' = Append(f_errors, exc)
  /\ IF exc \in TransientErrors /\ f_calls <= Retries
       THEN /\ f_sleeps' = Append(f_sleeps, f_delay)
            /\ f_delay' = f_delay * 2
            /\ f_calls' = f_calls + 1
            /\ f_pc' = FirstLine
            /\ UNCHANGED f_outcome
       ELSE /\ f_pc' = "raised"
            /\ f_outcome' = [kind |-> "raised", exc |-> exc]
            /\ UNCHANGED <<f_sleeps, f_delay, f_calls>>

\* f returns, lines 59 and 66: the wrapper returns its value
Returns ==
  /\ f_pc' = "returned"
  /\ f_outcome' = [kind |-> "returned", exc |-> "None"]
  /\ UNCHANGED <<f_errors, f_sleeps, f_delay, f_calls>>

\* a checkout that clones whether or not it may fetch
GitFirstStepAlwaysClones(dir, allow_fetch) ==
  IF dir = "missing" THEN "clone"
  ELSE IF dir = "plain" THEN "UncleanFilesystemError"
  ELSE "config"

\* GitBackend.checkout, lines 120-127: what it does about checkout_dir
GitFirstStep(dir, allow_fetch) ==
  IF dir = "missing"
    THEN IF ~allow_fetch THEN "FetchNotAllowedError" ELSE "clone"
  ELSE IF dir = "plain" THEN "UncleanFilesystemError"
  ELSE "config"

\* GitBackend.checkout, lines 120-127: git clone when there is no directory
GitIsDir ==
  /\ f_pc = "git.isdir"
  /\ LET first == GitFirstStep(f_dir, f_allow_fetch)
     IN CASE first = "config" ->
               /\ f_pc' = "git.config"
               /\ UNCHANGED <<f_ran, f_dir, f_has_rev, f_errors, f_sleeps, f_delay,
                              f_calls, f_outcome>>
          [] first = "clone" ->
               /\ f_ran' = f_ran \cup {"clone"}
               /\ \/ /\ f_dir' = "repo"
                     /\ f_has_rev' \in BOOLEAN
                     /\ f_pc' = "git.config"
                     /\ UNCHANGED <<f_errors, f_sleeps, f_delay, f_calls, f_outcome>>
                  \/ /\ Raises("CalledProcessError")
                     /\ UNCHANGED <<f_dir, f_has_rev>>
          [] OTHER ->
               /\ Raises(first)
               /\ UNCHANGED <<f_ran, f_dir, f_has_rev>>
  /\ UNCHANGED <<f_backend, f_allow_fetch>>

\* line 129: git config remote.origin.url
GitConfig ==
  /\ f_pc = "git.config"
  /\ f_ran' = f_ran \cup {"config"}
  /\ \/ /\ f_pc' = "git.revparse"
        /\ UNCHANGED <<f_errors, f_sleeps, f_delay, f_calls, f_outcome>>
     \/ Raises("CalledProcessError")
  /\ UNCHANGED <<f_backend, f_allow_fetch, f_dir, f_has_rev>>

\* lines 130-137: git rev-parse, and git fetch when the revision is not there
GitRevParse ==
  /\ f_pc = "git.revparse"
  /\ IF f_has_rev
       THEN /\ f_ran' = f_ran \cup {"rev-parse"}
            /\ f_pc' = "git.reset"
            /\ UNCHANGED <<f_has_rev, f_errors, f_sleeps, f_delay, f_calls, f_outcome>>
       ELSE IF ~f_allow_fetch
         THEN /\ f_ran' = f_ran \cup {"rev-parse"}
              /\ Raises("FetchNotAllowedError")
              /\ UNCHANGED f_has_rev
         ELSE /\ f_ran' = f_ran \cup {"rev-parse", "fetch"}
              /\ \/ /\ f_has_rev' \in BOOLEAN
                    /\ f_pc' = "git.reset"
                    /\ UNCHANGED <<f_errors, f_sleeps, f_delay, f_calls, f_outcome>>
                 \/ /\ Raises("CalledProcessError")
                    /\ UNCHANGED f_has_rev
  /\ UNCHANGED <<f_backend, f_allow_fetch, f_dir>>

\* line 138: git reset --hard revision fails without the revision
GitReset ==
  /\ f_pc = "git.reset"
  /\ f_ran' = f_ran \cup {"reset"}
  /\ \/ f_has_rev /\ Returns
     \/ Raises("CalledProcessError")
  /\ UNCHANGED <<f_backend, f_allow_fetch, f_dir, f_has_rev>>

\* GitilesBackend.checkout, lines 179-181
GitilesAllow ==
  /\ f_pc = "gitiles.allow"
  /\ IF ~f_allow_fetch
       THEN Raises("FetchNotAllowedError")
       ELSE /\ f_pc' = "gitiles.resolve"
            /\ UNCHANGED <<f_errors, f_sleeps, f_delay, f_calls, f_outcome>>
  /\ UNCHANGED <<f_backend, f_allow_fetch, f_dir, f_has_rev, f_ran>>

\* the requests of GitilesBackend.checkout: _resolve_revision (lines 183 and
\* 263-277), recipes.cfg (line 190) and the archive (line 211)
GitilesRequest ==
  /\ f_pc \in {"gitiles.resolve", "gitiles.cfg", "gitiles.archive"}
  /\ f_ran' = f_ran \cup {"request"}
  /\ \/ /\ f_pc = "gitiles.resolve"
        /\ f_pc' = "gitiles.cfg"
        /\ UNCHANGED <<f_errors, f_sleeps, f_delay, f_calls, f_outcome>>
     \/ /\ f_pc = "gitiles.cfg"
        /\ f_pc' = "gitiles.archive"
        /\ UNCHANGED <<f_errors, f_sleeps, f_delay, f_calls, f_outcome>>
     \/ f_pc = "gitiles.archive" /\ Returns
     \/ Raises("RequestException")
     \/ f_pc = "gitiles.resolve" /\ Raises("FetchError")
  /\ UNCHANGED <<f_backend, f_allow_fetch, f_dir, f_has_rev>>

NextFetch ==
  \/ RetryCall /\ UNCHANGED <<lbvars, livevars, simvars, rendervars, lcvars,
                              envvars, replayvars, taskvars, pathvars, runvars>>
  \/ GitIsDir /\ UNCHANGED <<lbvars, livevars, simvars, rendervars, lcvars,
                              envvars, replayvars, taskvars, pathvars, runvars>>
  \/ GitConfig /\ UNCHANGED <<lbvars, livevars, simvars, rendervars, lcvars,
                              envvars, replayvars, taskvars, pathvars, runvars>>
  \/ GitRevParse /\ UNCHANGED <<lbvars, livevars, simvars, rendervars, lcvars,
                              envvars, replayvars, taskvars, pathvars, runvars>>
  \/ GitReset /\ UNCHANGED <<lbvars, livevars, simvars, rendervars, lcvars,
                              envvars, replayvars, taskvars, pathvars, runvars>>
  \/ GitilesAllow /\ UNCHANGED <<lbvars, livevars, simvars, rendervars, lcvars,
                              envvars, replayvars, taskvars, pathvars, runvars>>
  \/ GitilesRequest /\ UNCHANGED <<lbvars, livevars, simvars, rendervars, lcvars,
                              envvars, replayvars, taskvars, pathvars, runvars>>

----------------------------------------------------------------------------
(* _modify_lookup_path around the spawn of a live step *)

\* values of a PATH
PathValues == {"/usr/bin", "/opt/bin", "/tools"}

\* what Popen may raise, and KeyboardInterrupt arriving during it
SpawnExceptions == {"OSError", "TypeError", "KeyboardInterrupt"}

\* no spawn is under way
InitIdlePath ==
  /\ p_pc = "idle"
  /\ p_environ = "None"
  /\ p_given = "None"
  /\ p_path = "None"
  /\ p_saved = "None"
  /\ p_seen = {}
  /\ p_exc = "None"

\* _run_cmd is about to enter the with statement of line 317
InitPath ==
  /\ p_pc = "called"
  /\ p_environ \in PathValues \cup {"None"}
  /\ p_given = p_environ
  /\ p_path \in PathValues \cup {"None"}
  /\ p_saved = "None"
  /\ p_seen = {}
  /\ p_exc = "None"

\* saved_path = os.environ['PATH'], line 658: KeyError when there is no PATH
ModifySave ==
  /\ p_pc = "called"
  /\ IF p_environ = "None"
       THEN /\ p_exc' = "KeyError"
            /\ p_pc' = "exited"
            /\ UNCHANGED p_saved
       ELSE /\ p_saved' = p_environ
            /\ p_pc' = "saved"
            /\ UNCHANGED p_exc
  /\ UNCHANGED <<p_environ, p_given, p_path, p_seen>>

\* lines 660-661: os.environ['PATH'] once a path that is not None is placed
Place(environ, path) == IF path # "None" THEN path ELSE environ

\* lines 659-662: the path is placed and the generator yields to the block
ModifyPlace ==
  /\ p_pc = "saved"
  /\ p_environ' = Place(p_environ, p_path)
  /\ p_seen' = {p_environ'}
  /\ p_pc' = "inside"
  /\ UNCHANGED <<p_given, p_path, p_saved, p_exc>>

\* subprocess42.Popen, lines 318-324: it returns or raises
SpawnUnderPath ==
  /\ p_pc = "inside"
  /\ p_exc' \in SpawnExceptions \cup {"None"}
  /\ p_seen' = p_seen \cup {p_environ}
  /\ p_pc' = "popened"
  /\ UNCHANGED <<p_environ, p_given, p_path, p_saved>>

\* a context manager that puts nothing back
RestoreSkipped(environ, saved_path) == environ

\* os.environ['PATH'] = saved_path, line 664
Restore(environ, saved_path) == saved_path

\* the finally clause, lines 663-664, on a return and on an exception of the
\* block alike; the exception goes on out of the with statement
ModifyRestore ==
  /\ p_pc = "popened"
  /\ p_environ' = Restore(p_environ, p_saved)
  /\ p_pc' = "exited"
  /\ UNCHANGED <<p_given, p_path, p_saved, p_seen, p_exc>>

NextPath ==
  \/ ModifySave /\ UNCHANGED <<lbvars, livevars, simvars, rendervars, lcvars,
                               envvars, replayvars, taskvars, fetchvars, runvars>>
  \/ ModifyPlace /\ UNCHANGED <<lbvars, livevars, simvars, rendervars, lcvars,
                               envvars, replayvars, taskvars, fetchvars, runvars>>
  \/ SpawnUnderPath /\ UNCHANGED <<lbvars, livevars, simvars, rendervars, lcvars,
                               envvars, replayvars, taskvars, fetchvars, runvars>>
  \/ ModifyRestore /\ UNCHANGED <<lbvars, livevars, simvars, rendervars, lcvars,
                               envvars, replayvars, taskvars, fetchvars, runvars>>

----------------------------------------------------------------------------
(* open_step and run() of both runners, from render_step to the end of run() *)

\* the steps opened here: stdout and stderr go to the step stream, stdin is
\* absent, a path or a placeholder
RunSteps == {st \in RenderSteps : st.stdout = NoValue /\ st.stderr = NoValue}

\* step_test.times_out_after of the test data: none, or two seconds
TimesOutAfter == {0, 2}

\* how the try block of the live run() can end (lines 208-221)
TryExceptions(name, timeout) ==
  {NoException, [type |-> "OSError"]} \cup
  (IF timeout = 0 THEN {} ELSE {StepTimeout(name, timeout)})

\* how run() ended
Ended(exc, data, cleanups) == [exc |-> exc, data |-> data, cleanups |-> cleanups]

\* a run() that constructs the result whatever happened before
LiveRunEndsConstructing(render, inflight, raised, retcode) ==
  LET c == ConstructStepResult(render.rendered_step, retcode, render.placeholders)
  IN  Ended(IF Leaves(inflight, raised) # NoException
              THEN Leaves(inflight, raised) ELSE c.error,
            c.data, c.cleanups)

\* the end of the live run(), lines 208-229: construct_step_result is called
\* at line 229 only, which no exception of the try block or of
\* _trigger_builds in the finally clause lets run() reach
LiveRunEnds(render, inflight, raised, retcode) ==
  IF Leaves(inflight, raised) # NoException
    THEN Ended(Leaves(inflight, raised), NoResult, <<>>)
    ELSE LET c == ConstructStepResult(render.rendered_step, retcode,
                                      render.placeholders)
         IN  Ended(c.error, c.data, c.cleanups)

\* run() of EmptyOpenStep, lines 172-179: nothing was rendered, the return
\* code is 0
EmptyRunEnds(step, raised) ==
  IF raised # NoException THEN Ended(raised, NoResult, <<>>)
  ELSE Ended(NoException, StepData(step, 0), <<>>)

\* the end of the simulated run(), lines 431-437
SimRunEnds(render, timeout, times_out_after, retcode) ==
  IF SimTimesOut(timeout, times_out_after)
    THEN Ended(StepTimeout(render.rendered_step.name, timeout), NoResult, <<>>)
    ELSE LET c == ConstructStepResult(render.rendered_step, retcode,
                                      render.placeholders)
         IN  Ended(c.error, c.data, c.cleanups)

\* no step is opened
InitIdleRun ==
  /\ o_pc = "idle"
  /\ o_runner = "live"
  /\ o_step = NoValue
  /\ o_timeout = 0
  /\ o_times_out_after = 0
  /\ o_render = NoValue
  /\ o_end = NoValue

\* a step is about to be opened on one of the runners; the live runner has
\* no test data
InitRun ==
  /\ o_pc = "step"
  /\ o_runner \in {"live", "sim"}
  /\ o_step \in RunSteps
  /\ o_timeout \in {0, 1}
  /\ o_times_out_after \in IF o_runner = "live" THEN {0} ELSE TimesOutAfter
  /\ o_render = NoValue
  /\ o_end = NoValue

\* open_step of the live runner, lines 165-187: EmptyOpenStep for a step
\* without a command, render_step with DisabledTestData otherwise
LiveOpen ==
  /\ o_pc = "step"
  /\ o_runner = "live"
  /\ o_render' = IF o_step.cmd = <<>> THEN NoValue
                 ELSE RenderStep(o_step, DisabledTestData)
  /\ o_pc' = IF o_step.cmd # <<>> /\ o_render'.error # NoException
               THEN "failed" ELSE "open"
  /\ UNCHANGED <<o_runner, o_step, o_timeout, o_times_out_after, o_end>>

\* open_step of the simulation runner, lines 411-421
SimOpen ==
  /\ o_pc = "step"
  /\ o_runner = "sim"
  /\ o_render' = RenderStep(o_step, EnabledTestData)
  /\ o_pc' = IF o_render'.error # NoException THEN "failed" ELSE "open"
  /\ UNCHANGED <<o_runner, o_step, o_timeout, o_times_out_after, o_end>>

\* run() of the live OpenStep
LiveRun ==
  /\ o_pc = "open"
  /\ o_runner = "live"
  /\ \E raised \in {NoException, ValueError} :
       IF o_render = NoValue
         THEN o_end' = EmptyRunEnds(o_step, raised)
         ELSE \E inflight \in TryExceptions(o_step.name, o_timeout),
                 retcode \in ReturnCodes :
                o_end' = LiveRunEnds(o_render, inflight, raised, retcode)
  /\ o_pc' = "ended"
  /\ UNCHANGED <<o_runner, o_step, o_timeout, o_times_out_after, o_render>>

\* run() of the simulated OpenStep
SimulatedRun ==
  /\ o_pc = "open"
  /\ o_runner = "sim"
  /\ \E retcode \in ReturnCodes :
       o_end' = SimRunEnds(o_render, o_timeout, o_times_out_after, retcode)
  /\ o_pc' = "ended"
  /\ UNCHANGED <<o_runner, o_step, o_timeout, o_times_out_after, o_render>>

NextRun ==
  \/ LiveOpen /\ UNCHANGED <<lbvars, livevars, simvars, rendervars, lcvars,
                             envvars, replayvars, taskvars, fetchvars, pathvars>>
  \/ SimOpen /\ UNCHANGED <<lbvars, livevars, simvars, rendervars, lcvars,
                            envvars, replayvars, taskvars, fetchvars, pathvars>>
  \/ LiveRun /\ UNCHANGED <<lbvars, livevars, simvars, rendervars, lcvars,
                            envvars, replayvars, taskvars, fetchvars, pathvars>>
  \/ SimulatedRun /\ UNCHANGED <<lbvars, livevars, simvars, rendervars, lcvars,
                                 envvars, replayvars, taskvars, fetchvars, pathvars>>

----------------------------------------------------------------------------
(* Specifications *)

\* a recipe runs on one of the two runners
InitIdleSim ==
  /\ s_step_data = <<>>
  /\ s_expected_exception = "None"
  /\ s_declared = "None"
  /\ s_registered = <<>>
  /\ s_steps = <<>>
  /\ s_step_history = <<>>
  /\ s_heap = <<>>
  /\ s_ctx = "body"
  /\ s_raised = "None"
  /\ s_outcome = "none"
  /\ s_error = NoException

\* neither a checkout nor a spawn under a modified PATH is under way
InitIdleExt == InitIdleFetch /\ InitIdlePath /\ InitIdleRun

\* nothing but the runners and render_step is in use
InitIdleAux == InitIdleEnv /\ InitIdleReplay /\ InitIdleTasks /\ InitIdleExt

Init == InitLinebuf /\ InitLive /\ InitIdleSim /\ InitIdleRender /\ InitIdleAux

InitSimRun == InitLinebuf /\ InitLive /\ InitSim /\ InitIdleRender /\ InitIdleAux

InitRenderRun == InitLinebuf /\ InitLive /\ InitIdleSim /\ InitRender /\ InitIdleAux

InitEnvRun ==
  /\ InitLinebuf /\ InitLive /\ InitIdleSim /\ InitIdleRender
  /\ InitEnv /\ InitIdleReplay /\ InitIdleTasks /\ InitIdleExt

InitReplayRun ==
  /\ InitLinebuf /\ InitLive /\ InitIdleSim /\ InitIdleRender
  /\ InitIdleEnv /\ InitReplay /\ InitIdleTasks /\ InitIdleExt

InitTasksRun ==
  /\ InitLinebuf /\ InitLive /\ InitIdleSim /\ InitIdleRender
  /\ InitIdleEnv /\ InitIdleReplay /\ InitTasks /\ InitIdleExt

SpecLinebuf == Init /\ [][NextLinebuf]_vars

SpecLive == Init /\ [][NextLive]_vars

SpecSim == InitSimRun /\ [][NextSim]_vars

InitSimHistoryRun ==
  InitLinebuf /\ InitLive /\ InitSimHistory /\ InitIdleRender /\ InitIdleAux

SpecSimHistory == InitSimHistoryRun /\ [][NextSimHistory]_vars

SpecRender == InitRenderRun /\ [][NextRender]_vars

SpecEnv == InitEnvRun /\ [][NextEnv]_vars

SpecReplay == InitReplayRun /\ [][NextReplay]_vars

SpecTasks == InitTasksRun /\ [][NextTasks]_vars

InitFuturesRun ==
  /\ InitLinebuf /\ InitLive /\ InitIdleSim /\ InitIdleRender
  /\ InitIdleEnv /\ InitIdleReplay /\ InitFutures /\ InitIdleExt

SpecFutures == InitFuturesRun /\ [][NextFutures]_vars

InitFetchRun ==
  /\ InitLinebuf /\ InitLive /\ InitIdleSim /\ InitIdleRender
  /\ InitIdleEnv /\ InitIdleReplay /\ InitIdleTasks /\ InitFetch /\ InitIdlePath
  /\ InitIdleRun

InitPathRun ==
  /\ InitLinebuf /\ InitLive /\ InitIdleSim /\ InitIdleRender
  /\ InitIdleEnv /\ InitIdleReplay /\ InitIdleTasks /\ InitIdleFetch /\ InitPath
  /\ InitIdleRun

SpecPath == InitPathRun /\ [][NextPath]_vars

InitOpenRun ==
  /\ InitLinebuf /\ InitLive /\ InitIdleSim /\ InitIdleRender
  /\ InitIdleEnv /\ InitIdleReplay /\ InitIdleTasks /\ InitIdleFetch /\ InitIdlePath
  /\ InitRun

SpecRun == InitOpenRun /\ [][NextRun]_vars

\* a checkout, whose every step is taken in the end
SpecFetch == InitFetchRun /\ [][NextFetch]_vars /\ WF_vars(NextFetch)

\* the live runner has run nothing yet
LiveUnused == l_pc = "idle" /\ l_ctx = "body"

\* there is no simulation runner: no test data, and nothing was run on one
SimUnused == InitIdleSim

\* a run on either runner: the live runner has no test data
NextRunners ==
  \/ SimUnused /\ NextLive
  \/ LiveUnused /\ NextSim

SpecRunners == InitSimRun /\ [][NextRunners]_vars

\* a simulated run on one of the registries with the return code 0
InitSimContexts ==
  /\ InitSim
  /\ s_step_data \in HistoryRegistries

InitContextsRun ==
  InitLinebuf /\ InitLive /\ InitSimContexts /\ InitIdleRender /\ InitIdleAux

\* a run on either runner, up to the end of its run_context
NextContexts ==
  \/ SimUnused /\ NextLive
  \/ SimUnused /\ NextLiveContext
  \/ LiveUnused /\ NextSim

SpecContexts == InitContextsRun /\ [][NextContexts]_vars

----------------------------------------------------------------------------
(* Claims about the line buffer *)

RECURSIVE LastIndexOf(_, _)
\* the last position of c in s, 0 when there is none
LastIndexOf(s, c) ==
  IF s = <<>> THEN 0
  ELSE IF Last(s) = c THEN Len(s) ELSE LastIndexOf(Front(s), c)

\* the lines of s that a "\n" has ended, and the text after the last "\n"
CompleteLines(s) == Splitlines(SubSeq(s, 1, LastIndexOf(s, NL)))
Fragment(s) == SubSeq(s, LastIndexOf(s, NL) + 1, Len(s))

HasCR(s) == \E i \in 1..Len(s) : s[i] = CR

\* C1 as stated: for every sequence of non-empty chunks, the lines handed out
\* by get_buffered (with those still buffered) are exactly the
\* newline-terminated lines of the concatenation of the chunks, in order and
\* once each, wherever the chunk boundaries fall.
C1_AnyChunks == returned \o buffedlines = CompleteLines(fed)

\* C1, amended: for every sequence of non-empty chunks that hold no carriage
\* return, the lines handed out by get_buffered (with those still buffered)
\* are exactly the newline-terminated lines of the concatenation, in order
\* and once each, and the unterminated trailing fragment is held back in
\* extra until a later chunk terminates it.
C1_LinesOfConcatenation ==
  ~HasCR(fed) =>
    /\ returned \o buffedlines = CompleteLines(fed)
    /\ extra = Fragment(fed)

\* a line begun by one chunk and ended by a later one has been returned, and
\* a new fragment is being held back
C1_Witness ==
  /\ ~HasCR(fed)
  /\ reassembled
  /\ returned # <<>>
  /\ buffedlines = <<>>
  /\ extra # <<>>

----------------------------------------------------------------------------
(* Claims about the live runner *)

RECURSIVE SinkText(_, _)
\* the text the sink got from pipe p: its lines, each with its line break
SinkText(sink, p) ==
  IF sink = <<>> THEN <<>>
  ELSE LET rest == SinkText(Front(sink), p)
           e == Last(sink)
       IN  IF e.call = "write_line" /\ e.pipe = p
             THEN rest \o e.text \o <<NL>>
             ELSE rest

\* C2: when the child of a live step closes a piped stdout or stderr and
\* exits normally, the fragment still held in the pipe's line buffer is
\* written to the sink as a final line before run() returns, so that every
\* byte the child wrote to a piped stream reaches the sink in some line.
C2_FragmentReachesSink ==
  (l_pc = "done" /\ l_outcome = "returned") =>
    \A p \in Piped(l_step) :
      SinkText(l_sink, p) \in {l_written[p], Append(l_written[p], NL)}

\* a is the beginning of b
IsPrefix(a, b) == Len(a) <= Len(b) /\ SubSeq(b, 1, Len(a)) = a

\* C37: stdout and stderr of a live step are line-buffered apart: at every
\* moment, under every interleaving of the reads, the lines the sink got
\* from a pipe, each with its line break, are a beginning of what the child
\* wrote to that pipe, so that no line holds text of the other pipe and the
\* lines of a pipe come in the order the child wrote them; what was read
\* of a pipe and is not yet in the sink is the fragment in that pipe's own
\* buffer.
C37_PipesBufferedApart ==
  \A p \in Pipes :
    /\ IsPrefix(SinkText(l_sink, p), l_written[p])
    /\ IsPrefix(SinkText(l_sink, p) \o l_linebufs[p].extra, l_written[p])
    /\ p \notin Piped(l_step) => SinkText(l_sink, p) = <<>>

\* the sink got a line of stderr while a fragment of stdout, read earlier,
\* waits in the buffer of stdout
C37_Witness ==
  /\ l_pc = "polling"
  /\ l_linebufs["stdout"].extra = <<"a">>
  /\ l_pending = EmptyPipes
  /\ SinkText(l_sink, "stderr") = <<"a", NL>>
  /\ SinkText(l_sink, "stdout") = <<>>

\* C3: whenever run() of the live runner raises StepTimeout, the child
\* process of the step has been killed: it is not left running.
C3_TimeoutKillsChild ==
  (l_outcome = "raised" /\ l_exc.type = "StepTimeout") => l_child # "running"

\* the step declares trigger specs of which one has no builder_name
BadTrigger(step) ==
  /\ step.trigger_specs.declared
  /\ \E i \in 1..Len(step.trigger_specs.specs) :
       step.trigger_specs.specs[i].builder_name = "None"

\* C4 as stated: if the step has a timeout T and its child is still running
\* when more than T has elapsed since spawn, run() raises StepTimeout
\* carrying the step name and T.
C4_RunningPastTimeoutRaises ==
  (l_pc = "done" /\ l_ran_past) =>
    (l_outcome = "raised" /\ l_exc = StepTimeout(l_step.name, l_step.timeout))

\* C4, amended: with a timeout T, run() is never still polling or waiting
\* later than one polling slice after T; a run() that ends while the child
\* is still running ends with StepTimeout, or with the ValueError of a
\* trigger spec without builder_name, which takes its place; and a
\* StepTimeout carries the step name and T and is raised no earlier than T.
\* (A child that exits after T but before the next iteration of the loop
\* makes run() return.)
C4_TimeoutWithinOneSlice ==
  /\ (l_pc \in {"polling", "waiting"} /\ l_step.timeout # 0) =>
       l_now - l_start_time <= l_step.timeout + PollSlice
  /\ (l_pc = "done" /\ l_child = "running") =>
       /\ l_outcome = "raised"
       /\ l_exc = IF BadTrigger(l_step) THEN ValueError
                  ELSE StepTimeout(l_step.name, l_step.timeout)
  /\ l_exc.type = "StepTimeout" =>
       /\ l_exc = StepTimeout(l_step.name, l_step.timeout)
       /\ l_step.timeout # 0
       /\ l_now - l_start_time >= l_step.timeout

\* the polling loop has raised StepTimeout one slice after the timeout, for a
\* child that was still running and had written output
C4_Witness ==
  /\ l_pc = "done"
  /\ l_exc.type = "StepTimeout"
  /\ Piped(l_step) # {}
  /\ l_child = "running"
  /\ l_written # EmptyPipes
  /\ l_now - l_start_time = l_step.timeout + PollSlice

\* the calls of the kind made on the sink, as the places they have in it
CallsAt(sink, call) == {i \in 1..Len(sink) : sink[i].call = call}

\* run() has ended for a step whose spawn failed
SpawnFailed == l_pc = "done" /\ l_step.cmd /\ l_child = "none"

\* C18: when spawning the child of a live step fails with an OS error, run()
\* writes the trace to the step's 'exception' log stream, then marks the step
\* status EXCEPTION, and then raises the original OS error again to the
\* caller; it never returns a StepResult for a step whose spawn failed.
C18_SpawnErrorReraised ==
  SpawnFailed =>
    /\ \E i, j, k \in 1..Len(l_sink) :
         /\ i < j
         /\ j < k
         /\ l_sink[i] = [call |-> "new_log_stream", name |-> "exception"]
         /\ l_sink[j].call = "write_line"
         /\ l_sink[j].pipe = "exception"
         /\ l_sink[k] = [call |-> "set_step_status", status |-> "EXCEPTION"]
    /\ l_outcome = "raised"
    /\ l_exc = [type |-> "OSError"]
    /\ l_result = NoResult

\* C19 as stated: every call of run() on a handle returned by the live
\* runner's open_step resets the sink's subannotation parsing state exactly
\* once before control leaves run(), whatever the outcome.
C19_EveryRunResetsOnce ==
  /\ l_pc = "done" => Cardinality(CallsAt(l_sink, "reset_subannotation_state")) = 1
  /\ l_pc \notin {"done", "finalized"} =>
       CallsAt(l_sink, "reset_subannotation_state") = {}

\* C19, amended: every call of run() on the handle of a step that has a
\* command resets the sink's subannotation parsing state exactly once before
\* control leaves run(), whatever the outcome: a result, StepTimeout, the
\* OSError of a failed spawn, or the ValueError of a trigger spec.  The
\* run() of a step without a command never resets it.
C19_RunWithCommandResetsOnce ==
  /\ (l_pc = "done" /\ l_step.cmd) =>
       Cardinality(CallsAt(l_sink, "reset_subannotation_state")) = 1
  /\ (l_pc = "done" /\ ~l_step.cmd) =>
       CallsAt(l_sink, "reset_subannotation_state") = {}
  /\ l_pc \notin {"done", "finalized"} =>
       CallsAt(l_sink, "reset_subannotation_state") = {}

\* run() of a step with a command has raised StepTimeout after forwarding a
\* line, and has reset the sink once, after that line
C19_Witness ==
  /\ l_pc = "done"
  /\ l_step.cmd
  /\ l_exc.type = "StepTimeout"
  /\ Cardinality(CallsAt(l_sink, "reset_subannotation_state")) = 1
  /\ \E i \in CallsAt(l_sink, "write_line") :
       \A j \in CallsAt(l_sink, "reset_subannotation_state") : i < j

\* the builderNames of the trigger records written to the sink, in order
TriggerRecords(sink) ==
  LET recs == SelectSeq(sink, LAMBDA e : e.call = "trigger")
  IN  [i \in 1..Len(recs) |-> recs[i].builderNames]

\* the trigger records that stand for the specs: one each, in spec order
RecordsFor(specs) == [i \in 1..Len(specs) |-> <<specs[i].builder_name>>]

\* the specs that come before the first one without a builder_name
RECURSIVE WellFormedPrefix(_)
WellFormedPrefix(specs) ==
  IF specs = <<>> \/ Head(specs).builder_name = "None" THEN <<>>
  ELSE <<Head(specs)>> \o WellFormedPrefix(Tail(specs))

\* C20 as stated: if a live step declares trigger specs, run() emits exactly
\* one trigger record per spec to the step's stream, in spec order, on every
\* outcome of the step, and emits none when the step declares none.
C20_OneRecordPerSpec ==
  l_pc = "done" =>
    TriggerRecords(l_sink) =
      IF l_step.trigger_specs.declared
        THEN RecordsFor(l_step.trigger_specs.specs)
        ELSE <<>>

\* C20, amended: if a live step declares trigger specs, run() emits one
\* trigger record per spec to the step's stream, in spec order, on every
\* outcome of the step, up to the first spec without a builder_name: there
\* run() raises ValueError and emits no record for that spec or for any
\* later one.  It emits none when the step declares no trigger specs, and
\* none before run() ends.
C20_OneRecordPerSpecUpToBadOne ==
  /\ l_pc = "done" =>
       /\ TriggerRecords(l_sink) =
            IF l_step.trigger_specs.declared
              THEN RecordsFor(WellFormedPrefix(l_step.trigger_specs.specs))
              ELSE <<>>
       /\ BadTrigger(l_step) => (l_outcome = "raised" /\ l_exc = ValueError)
       /\ l_exc = ValueError => BadTrigger(l_step)
  /\ l_pc \notin {"done", "finalized"} => TriggerRecords(l_sink) = <<>>

\* C38: when a trigger spec of a live step has no builder_name, run() ends
\* with ValueError and returns no StepResult, whether the child exited with
\* any return code, ran into the timeout or could not be spawned, and
\* whether or not the step has a command; the sink holds the trigger
\* records of the specs before that spec, in order, and of none after it.
C38_ValueErrorTakesOver ==
  (l_pc \in {"done", "finalized"} /\ BadTrigger(l_step)) =>
    /\ l_outcome = "raised"
    /\ l_exc = ValueError
    /\ l_result = NoResult
    /\ TriggerRecords(l_sink) =
         RecordsFor(WellFormedPrefix(l_step.trigger_specs.specs))
    /\ Len(TriggerRecords(l_sink)) < Len(l_step.trigger_specs.specs)

\* the child of a step ran past the timeout of the step, and run() has ended
\* with the ValueError of the second trigger spec, after the record of the
\* first
C38_Witness ==
  /\ l_pc = "done"
  /\ BadTrigger(l_step)
  /\ l_step.cmd
  /\ l_step.timeout # 0
  /\ l_now - l_start_time > l_step.timeout
  /\ l_child # "none"
  /\ l_returncode = "None"
  /\ l_exc = ValueError
  /\ TriggerRecords(l_sink) = <<<<"a">>>>

\* run() has raised StepTimeout and has emitted the records of both specs of
\* the step, in spec order
C20_Witness ==
  /\ l_pc = "done"
  /\ l_exc.type = "StepTimeout"
  /\ l_step.trigger_specs.declared
  /\ TriggerRecords(l_sink) = <<<<"a">>, <<"b">>>>

\* the positions of the sink that hold a write: the header, a forwarded line,
\* the exception log, the status, a trigger record
Writes(sink) == {i \in 1..Len(sink) : sink[i].call # "close"}

\* the positions of the sink where the stream is closed
Closes(sink) == {i \in 1..Len(sink) : sink[i].call = "close"}

\* C21: on the live runner finalize() closes the stream of the step, and every
\* write on the stream (header, forwarded lines, exception log, status,
\* trigger records) comes before the close: the stream is closed exactly when
\* the step is finalized, the close is the last call on it, and the header of
\* a step with a command is the first.
C21_WritesBeforeClose ==
  /\ (l_pc = "finalized") <=> (Closes(l_sink) # {})
  /\ \A i \in Closes(l_sink) : i = Len(l_sink)
  /\ \A i \in Closes(l_sink) : \A j \in Writes(l_sink) : j < i
  /\ l_pc = "finalized" /\ l_step.cmd => l_sink[1].call = "print_step"

\* a finalized step that forwarded a line, set a status or wrote a trigger
\* record
C21_Witness ==
  /\ l_pc = "finalized"
  /\ CallsAt(l_sink, "write_line") # {}
  /\ CallsAt(l_sink, "reset_subannotation_state") # {}

\* C24: every file object opened for the redirection of a standard stream is
\* closed by the supervisor once the child is spawned, and none is open after
\* run() has ended.
C24_NoHandleLeftOpen ==
  /\ l_child # "none" => l_handles = {}
  /\ l_pc \in {"done", "finalized"} => l_handles = {}

\* run() is in flight: the child is spawned and run() has not ended
InFlight == l_pc \in {"polling", "waiting"}

\* run() has ended, by a return or by an exception
RunEnded == l_pc \in {"done", "finalized"}

\* C25 as stated: each run() of a live handle spawns exactly one OS process.
C25_EveryRunSpawnsOne ==
  RunEnded => l_spawned = 1

\* C25: a run() of a live handle for a step with a command whose spawn does
\* not fail spawns exactly one OS process, and any other run() spawns none;
\* a step in flight has exactly one process, alive or exited; run() returns
\* a result only when that process has exited, with its return code.
C25_OneProcessPerSpawnedRun ==
  /\ l_spawned \in {0, 1}
  /\ l_spawned = 1 <=> l_child # "none"
  /\ InFlight => l_spawned = 1
  /\ RunEnded /\ l_exc.type = "OSError" => l_spawned = 0
  /\ RunEnded /\ l_exc.type = "StepTimeout" => l_spawned = 1
  /\ RunEnded /\ l_outcome = "returned" /\ l_step.cmd =>
        /\ l_child = "exited"
        /\ l_returncode \in ReturnCodes
  /\ RunEnded /\ ~l_step.cmd => l_spawned = 0

\* a run() that has returned the result of its one process, which has exited
C25_Witness ==
  /\ RunEnded
  /\ l_outcome = "returned"
  /\ l_step.cmd
  /\ l_spawned = 1
  /\ l_child = "exited"

\* C22 as stated: the only place where an exception raised inside a run is
\* swallowed is the simulated run_context, and only for the declared expected
\* exception; every other exception raised inside a run_context of either
\* runner leaves it.
C22_OnlyExpectedIsSwallowed ==
  /\ (s_ctx = "exited" /\ s_raised # "None" /\ s_raised # s_declared) =>
        (s_outcome = "raised" /\ s_error = [type |-> s_raised])
  /\ (l_ctx = "exited" /\ l_ctx_raised # "None") =>
        (l_ctx_outcome = "raised" /\ l_ctx_error = [type |-> l_ctx_raised])

\* C22, amended: the simulated run_context swallows an exception only when it
\* is the declared expected exception, and every other exception raised in
\* it leaves it; the run_context of the live runner swallows every Exception
\* raised in it, that of a step included, and only what is not an Exception
\* (KeyboardInterrupt) leaves it.
C22_LiveSwallowsEveryException ==
  /\ (s_ctx = "exited" /\ s_raised # "None" /\ s_raised # s_declared) =>
        (s_outcome = "raised" /\ s_error = [type |-> s_raised])
  /\ (l_ctx = "exited" /\ l_ctx_raised \in LiveExceptions) =>
        (l_ctx_outcome = "ok" /\ l_ctx_error = NoException)
  /\ (l_ctx = "exited" /\ l_ctx_raised \in BaseExceptions) =>
        (l_ctx_outcome = "raised" /\ l_ctx_error = [type |-> l_ctx_raised])
  /\ (l_ctx = "exited" /\ l_pc = "finalized" /\ l_outcome = "raised") =>
        l_ctx_raised = l_exc.type

\* the live run_context has swallowed the StepTimeout of its step
C22_Witness ==
  /\ l_ctx = "exited"
  /\ l_pc = "finalized"
  /\ l_ctx_raised = "StepTimeout"
  /\ l_ctx_outcome = "ok"

----------------------------------------------------------------------------
(* Claims about the simulation runner *)

\* the names of the steps opened so far
OpenedNames == {s_steps[i].name : i \in 1..Len(s_steps)}

\* the expected exception that has not been raised
Unraised == IF s_raised = s_declared THEN "None" ELSE s_declared

C6_ReturnCodeIsReturned ==
  /\ (l_pc = "done" /\ l_child = "exited" /\ l_exc.type # "StepTimeout"
        /\ ~BadTrigger(l_step)) =>
       (l_outcome = "returned" /\ l_exc = NoException /\
        l_result = StepData(l_step, l_returncode))
  /\ \A i \in 1..Len(s_steps) :
       LET h == s_steps[i] IN
       (h.state # "open" /\ h.step_test.times_out_after = 0) =>
         (h.state = "ran" /\ h.exc = NoException /\
          h.result = StepData(h, h.step_test.retcode))

\* a live step whose child exited with a nonzero code has returned a result
C6_Witness ==
  /\ l_pc = "done"
  /\ l_child = "exited"
  /\ l_returncode # 0
  /\ l_outcome = "returned"
  /\ l_result.retcode = l_returncode

\* C7 as stated: in the simulated run_context with a declared expected
\* exception X, a body that raises X has its exception swallowed and the run
\* completes normally; a body that raises another exception, or any exception
\* when none is declared, sees that same exception leave run_context.
C7_ExpectedExceptionCompletesRun ==
  (s_ctx = "exited" /\ s_raised # "None") =>
    IF s_raised = s_declared
      THEN s_outcome = "ok"
      ELSE s_outcome = "raised" /\ s_error = [type |-> s_raised]

\* C7, amended: in the simulated run_context with a declared expected
\* exception X, a body that raises X has its exception swallowed, and the run
\* completes normally when no registered fixture is left over (with one left
\* over it fails with the error that names the leftovers); a body that raises
\* another exception, or any exception when none is declared, sees that same
\* exception leave run_context.
C7_OnlyExpectedExceptionSwallowed ==
  (s_ctx = "exited" /\ s_raised # "None") =>
    IF s_raised = s_declared
      THEN IF DOMAIN s_step_data = {}
             THEN s_outcome = "ok" /\ s_error = NoException
             ELSE s_outcome = "raised" /\
                  s_error = AssertionErrorOf(s_step_data, "None")
      ELSE s_outcome = "raised" /\ s_error = [type |-> s_raised]

\* a run whose step ran and whose body then raised the expected exception
\* has completed normally
C7_Witness ==
  /\ s_ctx = "exited"
  /\ s_declared # "None"
  /\ s_raised = s_declared
  /\ s_outcome = "ok"
  /\ \E i \in 1..Len(s_steps) : s_steps[i].state = "ran"

\* C8 as stated: at the exit of run_context, if a registered fixture was
\* never rendered or the expected exception never raised, the run fails with
\* an error naming exactly the leftover step names and the unraised expected
\* exception; the run ends without error only when every fixture was
\* consumed.
C8_LeftoversAlwaysReported ==
  s_ctx = "exited" =>
    /\ (DOMAIN s_registered \ OpenedNames # {} \/ Unraised # "None") =>
         (s_outcome = "raised" /\
          s_error = [type |-> "AssertionError",
                     steps |-> DOMAIN s_registered \ OpenedNames,
                     exception |-> Unraised])
    /\ s_outcome = "ok" => DOMAIN s_registered \subseteq OpenedNames

\* C8, amended: when the body of run_context completes or raises the expected
\* exception, and a registered fixture was never rendered or the expected
\* exception never raised, the run fails with an error naming exactly the
\* leftover step names and the unraised expected exception; when the body
\* raises any other exception, that exception leaves run_context and the
\* leftovers are not reported; the run ends without error only when every
\* fixture was consumed and the expected exception, if any, was raised.
C8_LeftoversReportedUnlessRaising ==
  s_ctx = "exited" =>
    /\ (s_raised = "None" \/ s_raised = s_declared) =>
         IF DOMAIN s_registered \ OpenedNames # {} \/ Unraised # "None"
           THEN /\ s_outcome = "raised"
                /\ s_error = [type |-> "AssertionError",
                              steps |-> DOMAIN s_registered \ OpenedNames,
                              exception |-> Unraised]
           ELSE s_outcome = "ok"
    /\ (s_raised # "None" /\ s_raised # s_declared) =>
         (s_outcome = "raised" /\ s_error = [type |-> s_raised])
    /\ s_outcome = "ok" =>
         (DOMAIN s_registered \subseteq OpenedNames /\ Unraised = "None")

\* a run that opened one step and left the fixture of another unrendered has
\* failed at the exit of run_context, naming that step
C8_Witness ==
  /\ s_ctx = "exited"
  /\ s_steps # <<>>
  /\ s_raised = "None"
  /\ s_outcome = "raised"
  /\ s_error.type = "AssertionError"
  /\ s_error.steps # {}
  /\ s_error.steps # DOMAIN s_registered

\* C9: a registered fixture is removed from the registry at the moment its
\* step is opened, and is handed to that step only: the registry holds
\* exactly the registered fixtures whose names were never opened, the first
\* step opened under a registered name holds its fixture, and no later step
\* of that name holds a registered fixture.
C9_FixtureConsumedOnce ==
  /\ s_step_data = [n \in DOMAIN s_registered \ OpenedNames |-> s_registered[n]]
  /\ \A i \in 1..Len(s_steps) :
       LET first == \A j \in 1..(i - 1) : s_steps[j].name # s_steps[i].name
       IN  IF first /\ s_steps[i].name \in DOMAIN s_registered
             THEN s_steps[i].step_test = s_registered[s_steps[i].name]
             ELSE s_steps[i].step_test.origin # "registry"

\* two steps of one registered name were opened: the first holds the fixture
C9_Witness ==
  /\ Len(s_steps) >= 2
  /\ s_steps[1].name = s_steps[2].name
  /\ s_steps[1].step_test.origin = "registry"
  /\ s_steps[2].state = "ran"

----------------------------------------------------------------------------
(* Claims about render_step and construct_step_result *)

\* render_step has returned
RenderReturned == r_pc \in {"rendered", "constructed"}

\* render_step has been called
RenderCalled == r_pc \in {"rendered", "constructed", "failed"}

\* the entries i < j of argv are placeholders of the given kind that share
\* their group and their instance name
SameNamePair(cmd, kind) ==
  \E i, j \in 1..Len(cmd) :
    /\ i < j
    /\ cmd[i].kind = kind
    /\ cmd[j].kind = kind
    /\ cmd[i].namespaces = cmd[j].namespaces
    /\ cmd[i].name = cmd[j].name

\* the step redirects none of its three streams
NoStdio(step) == \A k \in {"stdout", "stderr", "stdin"} : step[k] = NoValue

\* C11: render_step applied to a step whose argv holds no placeholder and
\* which has no stdio placeholders returns a step whose argv is the input
\* argv, token for token and in order, and an empty placeholder map.
C11_NoPlaceholderIdentity ==
  (/\ RenderCalled
   /\ \A i \in 1..Len(r_step.cmd) : r_step.cmd[i].kind = "str"
   /\ NoStdio(r_step)) =>
    /\ r_render.error = NoException
    /\ r_render.rendered_step.cmd = r_step.cmd
    /\ r_render.rendered_step = r_step
    /\ r_render.placeholders =
         [inputs_cmd |-> <<>>, outputs_cmd |-> <<>>,
          stdout |-> [ph |-> NoValue, td |-> NoValue],
          stderr |-> [ph |-> NoValue, td |-> NoValue],
          stdin |-> [ph |-> NoValue, td |-> NoValue]]

\* a step of two different literal tokens and no redirection has been rendered
C11_Witness ==
  /\ r_pc = "rendered"
  /\ Len(r_step.cmd) = 2
  /\ r_step.cmd[1].kind = "str"
  /\ r_step.cmd[2].kind = "str"
  /\ r_step.cmd[1] # r_step.cmd[2]
  /\ NoStdio(r_step)
  /\ r_render.rendered_step.cmd = r_step.cmd

\* C12: render_step fails with the configuration error whenever argv holds
\* two output placeholders of one (module, name) group with the same explicit
\* instance name, or two that both omit it; when it succeeds, the instance
\* names of every output group of the placeholder map are pairwise distinct,
\* so at most one instance is unnamed.
C12_OutputNamesDistinct ==
  RenderCalled =>
    /\ SameNamePair(r_step.cmd, "OutputPlaceholder") =>
         r_render.error = AssertionError("multiple output placeholders")
    /\ r_render.error = NoException =>
         \A m \in DOMAIN r_render.placeholders.outputs_cmd :
           \A p \in DOMAIN r_render.placeholders.outputs_cmd[m] :
             LET instances == r_render.placeholders.outputs_cmd[m][p]
             IN  \A i, j \in 1..Len(instances) :
                   instances[i].name = instances[j].name => i = j

\* render_step has refused an argv of two output placeholders of one group
\* under one name
C12_Witness ==
  /\ r_pc = "failed"
  /\ SameNamePair(r_step.cmd, "OutputPlaceholder")
  /\ r_render.error = AssertionError("multiple output placeholders")

\* the input placeholders of argv that belong to the group, in argv order
ArgvInputsOf(cmd, module_name, placeholder_name) ==
  SelectSeq(cmd, LAMBDA item :
    item.kind = "InputPlaceholder" /\
    item.namespaces = <<module_name, placeholder_name>>)

\* C13 as stated: a step whose argv holds two input placeholders of one
\* (module, name) group with the same explicit instance name, or two unnamed
\* ones, is rejected by render_step with a configuration error.
C13_InputNamesDistinct ==
  (RenderCalled /\ SameNamePair(r_step.cmd, "InputPlaceholder")) =>
    r_render.error.type = "AssertionError"

\* C13, amended: the naming rule is enforced for output groups only.  Input
\* placeholders of one group that share an instance name, or are both unnamed,
\* are no reason for render_step to fail: an argv with no such pair of output
\* placeholders and no redirection is rendered, and each input group of the
\* placeholder map lists all the input placeholders of the group, in argv
\* order, whatever their names.
C13_InputNamesNotChecked ==
  RenderCalled =>
    /\ (~SameNamePair(r_step.cmd, "OutputPlaceholder") /\ NoStdio(r_step)) =>
         r_render.error = NoException
    /\ r_render.error = NoException =>
         \A m \in DOMAIN r_render.placeholders.inputs_cmd :
           \A p \in DOMAIN r_render.placeholders.inputs_cmd[m] :
             LET items == r_render.placeholders.inputs_cmd[m][p]
             IN  [i \in 1..Len(items) |-> items[i][1]] =
                   ArgvInputsOf(r_step.cmd, m, p)

\* render_step has accepted two input placeholders of one group under one name
C13_Witness ==
  /\ r_pc = "rendered"
  /\ SameNamePair(r_step.cmd, "InputPlaceholder")
  /\ \E m \in DOMAIN r_render.placeholders.inputs_cmd :
       \E p \in DOMAIN r_render.placeholders.inputs_cmd[m] :
         Len(r_render.placeholders.inputs_cmd[m][p]) = 2

\* the output groups of the placeholder map, as <<module, name>> pairs
OutputGroupsOf(placeholders) ==
  UNION {{<<m, p>> : p \in DOMAIN placeholders.outputs_cmd[m]} :
         m \in DOMAIN placeholders.outputs_cmd}

\* the group holds one unnamed instance and one named instance
OneUnnamedOneNamed(instances) ==
  /\ Len(instances) = 2
  /\ \E i \in 1..2 : instances[i].name = "None"
  /\ \E i \in 1..2 : instances[i].name # "None"

\* the instance of the group that has, or has not, an explicit name
TheNamed(instances) ==
  instances[CHOOSE i \in 1..Len(instances) : instances[i].name # "None"]

TheUnnamed(instances) ==
  instances[CHOOSE i \in 1..Len(instances) : instances[i].name = "None"]

\* C14 as stated: for an output group with one unnamed instance and one
\* explicitly named instance, the StepResult exposes the named result under
\* its name and a default result for the group, and the default is equal to
\* the named result.
C14_DefaultEqualsNamed ==
  (r_pc = "constructed" /\ r_construct.error = NoException) =>
    \A g \in OutputGroupsOf(r_render.placeholders) :
      LET instances == r_render.placeholders.outputs_cmd[g[1]][g[2]]
          o == r_construct.attrs[g[1]]
      IN  OneUnnamedOneNamed(instances) =>
            /\ o[g[2] \o "s"][TheNamed(instances).name] =
                 ResultOf(TheNamed(instances).ph, TheNamed(instances).td)
            /\ g[2] \in DOMAIN o
            /\ o[g[2]] = o[g[2] \o "s"][TheNamed(instances).name]

\* C14, amended: for an output group with one unnamed instance and one
\* explicitly named instance, the StepResult exposes the named result under
\* its name, alone, and a default result for the group, and the default is
\* the result of the unnamed instance.
C14_DefaultIsUnnamed ==
  (r_pc = "constructed" /\ r_construct.error = NoException) =>
    \A g \in OutputGroupsOf(r_render.placeholders) :
      LET instances == r_render.placeholders.outputs_cmd[g[1]][g[2]]
          o == r_construct.attrs[g[1]]
      IN  OneUnnamedOneNamed(instances) =>
            /\ DOMAIN o[g[2] \o "s"] = {TheNamed(instances).name}
            /\ o[g[2] \o "s"][TheNamed(instances).name] =
                 ResultOf(TheNamed(instances).ph, TheNamed(instances).td)
            /\ g[2] \in DOMAIN o
            /\ o[g[2]] = ResultOf(TheUnnamed(instances).ph, TheUnnamed(instances).td)

\* a result has been constructed for a group whose unnamed instance comes
\* first and whose named instance has another result
C14_Witness ==
  /\ r_pc = "constructed"
  /\ \E g \in OutputGroupsOf(r_render.placeholders) :
       LET instances == r_render.placeholders.outputs_cmd[g[1]][g[2]]
       IN  /\ OneUnnamedOneNamed(instances)
           /\ instances[1].name = "None"
           /\ instances[1].ph.res # instances[2].ph.res
           /\ r_construct.attrs[g[1]][g[2]] = ResultOf(instances[1].ph, instances[1].td)

\* the group holds two or more instances, all of them named
AllNamed(instances) ==
  /\ Len(instances) >= 2
  /\ \A i \in 1..Len(instances) : instances[i].name # "None"

\* C15: for an output group with two or more explicitly and distinctly named
\* instances and no unnamed instance, the StepResult holds the result of each
\* instance under its own name, none overwriting another, and sets no default
\* result for the group.
C15_NamedResultsNoDefault ==
  (r_pc = "constructed" /\ r_construct.error = NoException) =>
    \A g \in OutputGroupsOf(r_render.placeholders) :
      LET instances == r_render.placeholders.outputs_cmd[g[1]][g[2]]
          o == r_construct.attrs[g[1]]
      IN  AllNamed(instances) =>
            /\ DOMAIN o[g[2] \o "s"] = {instances[i].name : i \in 1..Len(instances)}
            /\ Cardinality(DOMAIN o[g[2] \o "s"]) = Len(instances)
            /\ \A i \in 1..Len(instances) :
                 o[g[2] \o "s"][instances[i].name] =
                   ResultOf(instances[i].ph, instances[i].td)
            /\ g[2] \notin DOMAIN o

\* a result has been constructed for a group of two named instances whose
\* results differ
C15_Witness ==
  /\ r_pc = "constructed"
  /\ \E g \in OutputGroupsOf(r_render.placeholders) :
       LET instances == r_render.placeholders.outputs_cmd[g[1]][g[2]]
       IN  /\ AllNamed(instances)
           /\ instances[1].ph.res # instances[2].ph.res
           /\ g[2] \notin DOMAIN r_construct.attrs[g[1]]

\* the group holds one instance, and it has an explicit name
OneNamedAlone(instances) ==
  Len(instances) = 1 /\ instances[1].name # "None"

\* C34: for an output group that holds exactly one instance, explicitly
\* named, the StepResult exposes the result of the instance under its name,
\* alone, and the same result as the default of the group.
C34_LoneNamedIsDefault ==
  (r_pc = "constructed" /\ r_construct.error = NoException) =>
    \A g \in OutputGroupsOf(r_render.placeholders) :
      LET instances == r_render.placeholders.outputs_cmd[g[1]][g[2]]
          o == r_construct.attrs[g[1]]
      IN  OneNamedAlone(instances) =>
            /\ DOMAIN o[g[2] \o "s"] = {instances[1].name}
            /\ o[g[2] \o "s"][instances[1].name] =
                 ResultOf(instances[1].ph, instances[1].td)
            /\ g[2] \in DOMAIN o
            /\ o[g[2]] = ResultOf(instances[1].ph, instances[1].td)

\* a result has been constructed for a step whose argv holds one named
\* output placeholder next to a literal, and it is the default of its group
C34_Witness ==
  /\ r_pc = "constructed"
  /\ r_construct.error = NoException
  /\ Len(r_step.cmd) = 2
  /\ \E g \in OutputGroupsOf(r_render.placeholders) :
       LET instances == r_render.placeholders.outputs_cmd[g[1]][g[2]]
       IN  /\ OneNamedAlone(instances)
           /\ instances[1].name = "x"
           /\ r_construct.attrs[g[1]][g[2]] = ResultOf(instances[1].ph, instances[1].td)

\* the kind of placeholder the stdio field is for
KindFor(key) == IF key = "stdin" THEN "InputPlaceholder" ELSE "OutputPlaceholder"

RecordedInputs(placeholders) ==
  UNION {UNION {{<<m, p, i>> : i \in 1..Len(placeholders.inputs_cmd[m][p])} :
                p \in DOMAIN placeholders.inputs_cmd[m]} :
         m \in DOMAIN placeholders.inputs_cmd}

\* how many times the placeholder map holds the input placeholder
TimesRecorded(placeholders, ph) ==
  Cardinality({t \in RecordedInputs(placeholders) :
                 placeholders.inputs_cmd[t[1]][t[2]][t[3]][1] = ph})
  + (IF placeholders.stdin.ph = ph THEN 1 ELSE 0)

\* how many cleanup calls were made on the input placeholder
TimesCleaned(cleanups, ph) ==
  Cardinality({i \in 1..Len(cleanups) : cleanups[i].ph = ph})

\* C17: construct_step_result invokes cleanup exactly once on every input
\* placeholder recorded in the placeholder map, every instance of every argv
\* group and the stdin placeholder; for stdin it only runs cleanup and sets
\* no stdin result field, while the stdout and stderr output placeholders
\* populate the stdout and stderr result fields.
C17_CleanupOncePerInput ==
  (r_pc = "constructed" /\ r_construct.error = NoException) =>
    /\ \A ph \in ArgvInputs \cup StdioInputs :
         TimesCleaned(r_construct.cleanups, ph) =
           TimesRecorded(r_render.placeholders, ph)
    /\ \A i \in 1..Len(r_construct.cleanups) :
         /\ r_construct.cleanups[i].ph.kind = "InputPlaceholder"
         /\ r_construct.cleanups[i].enabled = r_step_test.enabled
    /\ "stdin" \notin DOMAIN r_construct.attrs
    /\ \A k \in {"stdout", "stderr"} :
         IF r_render.placeholders[k].ph = NoValue
           THEN k \notin DOMAIN r_construct.attrs
           ELSE /\ k \in DOMAIN r_construct.attrs
                /\ r_construct.attrs[k] =
                     ResultOf(r_render.placeholders[k].ph, r_render.placeholders[k].td)

\* a result has been constructed for a step with an input placeholder in argv
\* and all three streams redirected
C17_Witness ==
  /\ r_pc = "constructed"
  /\ r_render.placeholders.inputs_cmd # <<>>
  /\ r_render.placeholders.stdin.ph # NoValue
  /\ r_render.placeholders.stdout.ph # NoValue
  /\ Len(r_construct.cleanups) >= 2
  /\ "stdout" \in DOMAIN r_construct.attrs
  /\ "stdin" \notin DOMAIN r_construct.attrs

----------------------------------------------------------------------------
(* Claims about _merge_envs *)

\* the environment _merge_envs returned
Merged == e_heap[e_result]

\* C23: the environment _merge_envs(original, override) returns is a new one
\* in which every key whose override value is None is missing, every other
\* override key maps to its override value with the tokens resolved against
\* the original environment, whatever the order of the override entries, and
\* every key not in override keeps its original value; the original
\* environment is left unchanged.
C23_MergedEnvironment ==
  /\ e_heap.original = e_given
  /\ e_pc = "returned" =>
        /\ e_result = "copy"
        /\ \A k \in DOMAIN e_override :
              IF e_override[k] = NoValue
                THEN k \notin DOMAIN Merged
                ELSE /\ k \in DOMAIN Merged
                     /\ Merged[k] = Format(e_override[k].parts, e_given, <<>>).text
        /\ \A k \in EnvKeys \ DOMAIN e_override :
              /\ k \in DOMAIN Merged <=> k \in DOMAIN e_given
              /\ k \in DOMAIN e_given => Merged[k] = e_given[k]

\* a returned environment for an override that replaces PATH and gives A a
\* value that refers to PATH
C23_Witness ==
  /\ e_pc = "returned"
  /\ DOMAIN e_override = {"PATH", "A"}
  /\ e_override["PATH"] = [kind |-> "str", parts |-> <<Lit("y")>>]
  /\ e_override["A"] = [kind |-> "str", parts |-> <<Token("PATH"), Lit("y")>>]
  /\ "PATH" \in DOMAIN e_given
  /\ Merged["A"] = e_given["PATH"] \o <<"y">>

----------------------------------------------------------------------------
(* Claims about a step run on both runners *)

\* both runners have opened and run the step
BothRan == q_live # NoValue /\ q_sim # NoValue

\* the two outcomes agree: the same failure, or the same return code with
\* the same attributes set from the placeholders and the same stdio fields
SameShape(live, sim) ==
  /\ live.error = sim.error
  /\ live.error = NoException =>
        /\ live.data.retcode = sim.data.retcode
        /\ DOMAIN live.attrs = DOMAIN sim.attrs
        /\ live.attrs = sim.attrs

----------------------------------------------------------------------------
(* Claims about the step dicts and the history of a simulated run *)

\* the steps of the run have names of their own, as the engine gives them
UniqueNames ==
  \A i, j \in 1..Len(s_steps) : s_steps[i].name = s_steps[j].name => i = j

\* the place of step i's dict in steps_ran, 0 when it is not there
PlaceInStepsRan(i) ==
  IF \E k \in 1..Len(s_step_history) : s_step_history[k].ref = s_steps[i].step_dict
    THEN CHOOSE k \in 1..Len(s_step_history) :
           s_step_history[k].ref = s_steps[i].step_dict
    ELSE 0

C29_FollowupOnHistoryRecord ==
  UniqueNames =>
    \A i \in 1..Len(s_steps) :
      s_steps[i].state = "ran" =>
        LET k == PlaceInStepsRan(i)
            lines == SelectSeq(Splitlines(s_steps[i].captured),
                               LAMBDA line : line # <<>>)
        IN  /\ k # 0
            /\ StepsRan[k].name = s_steps[i].name
            /\ IF s_steps[i].finalized /\ lines # <<>>
                 THEN /\ "~followup_annotations" \in DOMAIN StepsRan[k]
                      /\ StepsRan[k]["~followup_annotations"] = lines
                      /\ \A n \in 1..Len(lines) : lines[n] # <<>>
                 ELSE "~followup_annotations" \notin DOMAIN StepsRan[k]

\* two finalized steps in steps_ran: one captured two lines around an empty
\* one, the other empty lines only
C29_Witness ==
  /\ UniqueNames
  /\ Len(s_step_history) = 2
  /\ \E i, j \in 1..Len(s_steps) :
       /\ s_steps[i].finalized /\ s_steps[j].finalized
       /\ s_steps[i].captured = <<"a", NL, NL, "b", NL>>
       /\ s_steps[j].captured = <<NL, NL>>
       /\ StepsRan[PlaceInStepsRan(i)]["~followup_annotations"] = <<<<"a">>, <<"b">>>>

\* the dicts of the steps that ran, in the order of their run() calls
RanInOrder ==
  SelectSeq([i \in 1..Len(s_steps) |->
               [ref |-> s_steps[i].step_dict, ran |-> s_steps[i].state = "ran"]],
            LAMBDA h : h.ran)

RanDicts(steps) ==
  LET ran == SelectSeq([i \in 1..Len(steps) |-> i],
                       LAMBDA i : steps[i].state = "ran")
  IN  [k \in 1..Len(ran) |-> steps[ran[k]].step_dict]

\* the dicts the history refers to, in its order
HistoryDicts(history) == [k \in 1..Len(history) |-> history[k].ref]

\* C39: a simulated step whose run() raised StepTimeout is not in the
\* history; in a run whose steps have names of their own, steps_ran holds
\* the dicts of exactly the steps whose run() returned a StepResult, in the
\* order of the runs; and finalize() of a timed-out step leaves steps_ran,
\* the records and what they hold, as it was.
C39_TimedOutNeverInHistory ==
  [][/\ \A i \in 1..Len(s_steps') :
          s_steps'[i].state = "timed_out" =>
            \A k \in 1..Len(s_step_history') :
               s_step_history'[k].ref # s_steps'[i].step_dict
     /\ UniqueNames' => HistoryDicts(s_step_history') = RanDicts(s_steps')
     /\ \A i \in 1..Len(s_steps) :
          (/\ s_steps[i].state = "timed_out"
           /\ ~s_steps[i].finalized
           /\ s_steps'[i].finalized) => StepsRan' = StepsRan
    ]_vars

\* of two steps one ran and is in steps_ran; the other timed out and was
\* finalized with two lines captured, and is not
C39_Witness ==
  /\ UniqueNames
  /\ Len(s_step_history) = 1
  /\ \E i, j \in 1..Len(s_steps) :
       /\ s_steps[i].state = "timed_out"
       /\ s_steps[i].finalized
       /\ s_steps[i].captured = <<"a", NL, NL, "b", NL>>
       /\ "~followup_annotations" \in DOMAIN s_heap[s_steps[i].step_dict]
       /\ s_steps[j].state = "ran"
       /\ StepsRan = <<s_heap[s_steps[j].step_dict]>>

----------------------------------------------------------------------------
(* Claims about tasks that run live steps *)

\* the lines of each iteration of each polling loop are next to each other in
\* the sink, and each was read by the task that runs the step
WholePollIterations(sink) ==
  /\ \A a, b \in 1..Len(sink) :
        (a < b /\ sink[a].step = sink[b].step /\ sink[a].poll = sink[b].poll) =>
          \A c \in a..b : sink[c].step = sink[a].step /\ sink[c].poll = sink[a].poll
  /\ \A a \in 1..Len(sink) : sink[a].reader = sink[a].step

----------------------------------------------------------------------------
(* Claims about futures.spawn and futures.spawn_immediate *)

\* the tasks between the test of the future and its assignment, lines 136-137
InGuarded(tasks) ==
  {t \in Tasks : \/ tasks[t].at \in {"tested", "assign"}
                 \/ tasks[t].at = "wait" /\ tasks[t].ret # 0}

\* C31: when concurrency is supported, futures.spawn does not switch to the
\* task it spawns: a task runs its first code only when the task that held
\* the thread is at a blocking operation, the caller of spawn keeps the
\* thread, and at most one task at a time is between the test of the future
\* and its assignment.
C31_SpawnDoesNotSwitch ==
  [][t_concurrency =>
       /\ \A t \in Tasks :
             (~t_tasks[t].started /\ t_tasks'[t].started) =>
                t_tasks[t_current].at \in SuspensionPositions
       /\ (\E t \in Tasks : t_tasks[t].state = "unspawned" /\ t_tasks'[t].state = "ready")
             => t_current' = t_current
       /\ Cardinality(InGuarded(t_tasks')) <= 1
    ]_vars

\* with concurrency, the main task has tested the future, spawned and
\* assigned, and goes on in its code while the spawned task has not run
C31_Witness ==
  /\ t_concurrency
  /\ t_current = 1
  /\ t_my_future = 2
  /\ t_tasks[1].at = "code"
  /\ t_tasks[2].state = "ready"
  /\ ~t_tasks[2].started

\* task c has got back from a spawn_immediate
ReturnedFromImmediate(tasks, c) ==
  tasks[c].putfor # 0 /\ tasks[c].at \notin {"chan.put", "put"}

\* C32: when spawn_immediate returns to its caller, the function it spawned
\* has started: _immediate_runner has taken the item of the channel and has
\* gone on to func, and at the moment of the return it is at a suspension
\* point or has ended.
C32_ImmediateHasStarted ==
  [][\A c \in Tasks :
       ReturnedFromImmediate(t_tasks', c) =>
         LET r == t_tasks'[t_tasks'[c].putfor]
         IN /\ r.started
            /\ r.chan = "taken"
            /\ ~ReturnedFromImmediate(t_tasks, c) =>
                  r.at \in {"wait", "yield", "put", "end"}
    ]_vars

\* the main task is back from spawn_immediate while the function it spawned
\* is suspended in a yield
C32_Witness ==
  /\ t_current = 1
  /\ t_tasks[1].at = "code"
  /\ t_tasks[1].putfor = 2
  /\ t_tasks[2].chan = "taken"
  /\ t_tasks[2].at = "yield"

----------------------------------------------------------------------------
(* Claims about the checkout of a backend and _retry *)

\* C33: with allow_fetch false a checkout runs neither git clone nor git
\* fetch and issues no request; where it would need one of them (no
\* checkout directory, a repository without the revision, any Gitiles
\* checkout) it raises FetchNotAllowedError, and the wrapper invokes the
\* checkout no more after that error; it returns only when the local
\* repository holds the revision.
C33_NoNetworkWithoutAllowFetch ==
  (f_pc # "idle" /\ ~f_allow_fetch) =>
    /\ f_ran \cap {"clone", "fetch", "request"} = {}
    /\ \A i \in 1..Len(f_errors) :
          f_errors[i] = "FetchNotAllowedError" =>
            /\ i = Len(f_errors)
            /\ f_pc = "raised"
            /\ f_outcome.exc = "FetchNotAllowedError"
    /\ f_pc = "returned" => f_backend = "git" /\ f_dir = "repo" /\ f_has_rev
    /\ (f_pc = "raised" /\ (f_backend = "gitiles" \/ f_dir = "missing")) =>
          f_outcome.exc = "FetchNotAllowedError" /\ f_calls = 1
    /\ (/\ f_pc = "raised"
        /\ f_backend = "git"
        /\ f_dir = "repo"
        /\ ~f_has_rev
        /\ "rev-parse" \in f_ran) => f_outcome.exc = "FetchNotAllowedError"

\* without allow_fetch, git config failed once and was retried; then the
\* revision was not found and FetchNotAllowedError left the wrapper
C33_Witness ==
  /\ ~f_allow_fetch
  /\ f_backend = "git"
  /\ f_pc = "raised"
  /\ f_calls = 2
  /\ f_errors = <<"CalledProcessError", "FetchNotAllowedError">>
  /\ f_ran = {"config", "rev-parse"}

\* the wrapper has ended
RetryEnded == f_pc \in {"returned", "raised"}

\* what holds of the wrapper from its first invocation of f on
RetryBounded ==
  f_pc \notin {"idle", "called"} =>
    /\ f_calls >= 1 /\ f_calls <= 6
    /\ Len(f_sleeps) = f_calls - 1
    /\ \A i \in 1..(Len(f_sleeps) - 1) : f_sleeps[i + 1] = 2 * f_sleeps[i]
    /\ \A i \in 1..Len(f_errors) :
          /\ i < f_calls => f_errors[i] \in {"RequestException", "CalledProcessError"}
          /\ f_errors[i] \notin {"RequestException", "CalledProcessError"} =>
                /\ i = Len(f_errors)
                /\ f_pc = "raised"
    /\ ~RetryEnded => Len(f_errors) = f_calls - 1
    /\ f_pc = "returned" => Len(f_errors) = f_calls - 1 /\ f_outcome.kind = "returned"
    /\ f_pc = "raised" =>
          /\ Len(f_errors) = f_calls
          /\ f_outcome = [kind |-> "raised", exc |-> f_errors[f_calls]]
          /\ f_outcome.exc \in {"RequestException", "CalledProcessError"} => f_calls = 6

\* C36: a function wrapped by _retry is invoked at most 6 times and the
\* wrapper ends: it returns at the first invocation that succeeds, invokes
\* again only after a request exception or a failed subprocess, sleeps once
\* before each further invocation with a delay twice the one before, lets
\* any other exception out at once, and lets the error of the 6th
\* invocation out.
C36_RetryEndsWithinSixCalls == []RetryBounded /\ <>RetryEnded

\* five transient errors were each followed by a sleep, the last sleep 16
\* times the first, and the error of the 6th invocation has left the wrapper
C36_Witness ==
  /\ f_pc = "raised"
  /\ f_calls = 6
  /\ Len(f_sleeps) = 5
  /\ f_sleeps[5] = 16 * f_sleeps[1]
  /\ f_outcome.exc = "RequestException"

----------------------------------------------------------------------------
(* Claims about _modify_lookup_path *)

\* C35: once the with statement around Popen has been left, by a return or by
\* any exception, os.environ['PATH'] is what it was before; and when the
\* step's environment has no PATH, os.environ['PATH'] has no other value at
\* any moment of the spawn.
C35_PathRestored ==
  /\ p_pc = "exited" => p_environ = p_given
  /\ (p_pc # "idle" /\ p_path = "None") =>
        p_environ = p_given /\ p_seen \subseteq {p_given}

\* Popen ran under the PATH of the step, which was not the ambient one, and
\* raised OSError; the ambient PATH is back
C35_Witness ==
  /\ p_pc = "exited"
  /\ p_exc = "OSError"
  /\ p_path # "None"
  /\ p_path # p_given
  /\ p_seen = {p_path}
  /\ p_environ = p_given

----------------------------------------------------------------------------
(* Claims about the cleanup of input placeholders *)

\* the input placeholders open_step rendered: those of argv, and the one of
\* stdin
RenderedInputs(placeholders) ==
  {it[1] : it \in UNION {UNION {{g[k] : k \in 1..Len(g)} :
                                  g \in {placeholders.inputs_cmd[m][n] :
                                           n \in DOMAIN placeholders.inputs_cmd[m]}} :
                          m \in DOMAIN placeholders.inputs_cmd}}
  \cup (IF placeholders.stdin.ph = NoValue THEN {} ELSE {placeholders.stdin.ph})

\* C40: when run() of a live step ends with StepTimeout or the OSError of
\* the spawn, or run() of a simulated step ends with StepTimeout, cleanup
\* has been called on none of the input placeholders open_step rendered;
\* cleanup calls are made only by a run() that reached construct_step_result,
\* and a run() that returned has made them on all of these placeholders.
C40_NoCleanupWithoutResult ==
  o_pc = "ended" =>
    /\ o_end.exc.type \in {"StepTimeout", "OSError"} => o_end.cleanups = <<>>
    /\ (o_end.exc = NoException /\ o_render # NoValue) =>
         {o_end.cleanups[k].ph : k \in 1..Len(o_end.cleanups)} =
           RenderedInputs(o_render.placeholders)
    /\ o_end.cleanups # <<>> =>
         /\ o_end.exc.type \in {"None", "AssertionError"}
         /\ o_end.data # NoResult

\* a live step with an input placeholder in argv and one on stdin, both
\* rendered, whose run() ended with StepTimeout
C40_Witness ==
  /\ o_pc = "ended"
  /\ o_runner = "live"
  /\ o_end.exc.type = "StepTimeout"
  /\ o_render.placeholders.stdin.ph # NoValue
  /\ DOMAIN o_render.placeholders.inputs_cmd # {}
  /\ Cardinality(RenderedInputs(o_render.placeholders)) >= 2
  /\ o_end.cleanups = <<>>

====
